---- MODULE Spec2Model ----
(***************************************************************************)
(* A model of the SuraAI agents: the monitoring agent's baseline-driven    *)
(* anomaly detection, the canary agent's test and deployment decision, and *)
(* the response agents' decision engine.                                   *)
(*                                                                         *)
(* Numbers.  The Python code computes with floats.  The model computes     *)
(* with exact rationals [n |-> numerator, d |-> denominator], d > 0, kept  *)
(* in lowest terms; a comparison x > y * 2.0 is decided by cross           *)
(* multiplication.  Floating-point rounding (relative error 2^-53) is not  *)
(* modelled; on the sample sets below the float and the exact comparisons  *)
(* agree.                                                                  *)
(***************************************************************************)
EXTENDS Integers, Sequences, FiniteSets, TLC

VARIABLES
    baseline_metrics,   \* MonitoringAgent.baseline_metrics: system_id -> baseline
    mon_obs,            \* number of detect_anomaly calls made so far (bounded)
    mon_last,           \* the last detect_anomaly call: its arguments, what it
                        \* returned, and the subject's baseline before the call
    ai_available,       \* CanaryAgent.ai_available (lava_service.available)
    can_pc,             \* where the canary's handle_update is: idle, monitoring, deciding
    can_msg,            \* the UpdatePackage being handled: <<>> or <<msg>>
    can_sample,         \* run_canary_test's canary_systems
    can_metrics,        \* run_canary_test's return value: <<>> or <<metrics>>
    can_storage,        \* ctx.storage of the canary agent
    can_result,         \* the CanaryTestResult built by the last handler, with
                        \* what the oracle call came to and whether
                        \* send_to_peer delivered it: <<>> or <<record>>
    can_raised,         \* the handler ended in an exception
    can_handled,        \* number of UpdatePackages received so far (bounded)
    fb_metrics,         \* the argument of a _fallback_decision call
    fb_decision,        \* what that call returned: <<>> before the call
    resp_variant,       \* the class that runs as response_agent
    lava_available,     \* lava_service.available in the response agent's process
    resp_pc,            \* where the response agent's handler is: idle, executing,
                        \* sending, done, raised
    resp_alert,         \* the AnomalyAlert being handled: <<>> or <<msg>>
    resp_canary,        \* the CanaryTestResult being handled: <<>> or <<msg>>
    resp_outcome,       \* what the oracle call of the running handler came
                        \* to: <<>> (no call) or <<outcome>>
    resp_decision,      \* what execute_emergency_response decided, with the
                        \* oracle's analysis if one was made: <<>> or <<record>>
    resp_action,        \* the ResponseAction of the handler: <<>> or <<action>>
    resp_runbook,       \* the runbook the handler has run: <<>> or <<name>>
    resp_sent,          \* <<>>, or <<whether send_to_peer delivered the action>>
    resp_storage,       \* ctx.storage of the response agent
    resp_handled,       \* number of messages received so far (bounded)
    rb_table,           \* the class whose _rule_based_decision is called
    rb_alert,           \* the argument of that call
    rb_decision,        \* what the call returned: <<>> before the call
    com_inbox,          \* ResponseActions delivered to the communication agent
                        \* and not yet handled
    status_page,        \* CommunicationAgent.status_page, the list in memory
    status_file,        \* the records in status_page.json
    com_storage,        \* ctx.storage of the communication agent
    com_last,           \* the last handle_action since startup, with the state
                        \* it found: <<>> or <<record>>
    com_arrived,        \* the handler runs whose ResponseAction was delivered
                        \* to the communication agent, in order of arrival
    com_notified,       \* the handler runs whose ResponseAction the
                        \* communication agent has handled, in that order
    com_restarts,       \* number of restarts of the communication agent (bounded)
    reg_agents,         \* the names in the sending process's registry.agents
    net_pc,             \* where send_to_peer is: idle, sending, returned
    net_call,           \* the running call and its caller: <<>> or <<record>>
    net_result,         \* what send_to_peer returned: <<>> or <<bool>>
    net_attempts,       \* ctx.send invocations, one record per invocation
    net_delivered,      \* copies delivered to a recipient, one record per copy
    net_calls,          \* number of send_to_peer calls so far (bounded)
    dir_file,           \* agent_registry.json: absent, unreadable, or a JSON object
    dir_agents,         \* registry.agents of each agent process, an ordered dict
    dir_pc,             \* each process: down, loaded (registry constructed), running
    dir_starts,         \* number of starts of each process (bounded)
    dir_reads,          \* number of times each process has read the file
    dir_loaded,         \* the file each process found when it constructed its
                        \* registry: <<>> before that, else <<file>>
    dir_registered,     \* the names each process has registered since its start
    dir_failed,         \* a write of the file has failed
    dir_last,           \* the last register call with the directory it found:
                        \* <<>> or <<record>>
    wire_pc,            \* a message between two agents: idle, sent
    wire_msg,           \* the message on its way: <<>> or <<record>>
    wire_log,           \* what became of each message at its receiver
    job_queue,          \* the response agent's message queue: incidents whose
                        \* alert or canary result has arrived
    job_handler,        \* the handler run of the response agent: <<>> or
                        \* <<[id, stage]>>
    job_inflight,       \* per incident, the runbook executions in flight
    job_started,        \* per incident, the runbook executions started so far
    job_arrived,        \* number of messages arrived so far (bounded)
    systems,            \* mock infrastructure: system_id -> its record
    infra_last,         \* the last request and its answer: <<>> or <<record>>
    infra_requests,     \* number of requests so far (bounded)
    infra_start,        \* mock infrastructure: system_id -> the cpu and memory
                        \* drawn for it when the service started
    watch_pos,          \* monitor_loop: 0 while it sleeps between two cycles,
                        \* else the index of the system polled next
    watch_last,         \* per system, the last poll of it: <<>> or <<record>>
    resp_acted,         \* number of messages the response agent has taken up
                        \* that call for an action: ROLLBACK canary results and
                        \* HIGH or CRITICAL alerts
    id_variant,         \* the response agent class whose action ids are followed
    id_clock,           \* the wall clock, in half seconds
    id_idle,            \* half seconds passed since the last handler returned
    id_handler,         \* the running handler: <<>> or <<[sleep |-> half
                        \* seconds its runbook sleeps]>>
    id_pending,         \* the messages that have not arrived yet
    id_log              \* the ResponseActions created so far, in order

monVars == <<baseline_metrics, mon_obs, mon_last>>
canVars == <<ai_available, can_pc, can_msg, can_sample, can_metrics,
             can_storage, can_result, can_raised, can_handled>>
fbVars == <<fb_metrics, fb_decision>>
respVars == <<resp_variant, lava_available, resp_pc, resp_alert, resp_canary,
              resp_outcome, resp_decision, resp_action, resp_runbook, resp_sent, resp_storage, resp_handled>>
rbVars == <<rb_table, rb_alert, rb_decision>>
comVars == <<com_inbox, status_page, status_file, com_storage, com_last,
             com_arrived, com_notified, com_restarts>>
netVars == <<reg_agents, net_pc, net_call, net_result, net_attempts, net_delivered,
             net_calls>>
dirVars == <<dir_file, dir_agents, dir_pc, dir_starts, dir_reads, dir_loaded,
             dir_registered, dir_failed, dir_last>>
wireVars == <<wire_pc, wire_msg, wire_log>>
jobVars == <<job_queue, job_handler, job_inflight, job_started, job_arrived>>
infraVars == <<systems, infra_last, infra_requests>>
watchVars == <<infra_start, watch_pos, watch_last>>
countVars == <<resp_acted>>
idVars == <<id_variant, id_clock, id_idle, id_handler, id_pending, id_log>>
moreVars == <<watchVars, countVars, idVars>>
extVars == <<dirVars, wireVars, jobVars, infraVars, moreVars>>
vars == <<monVars, canVars, fbVars, respVars, rbVars, comVars, netVars, extVars>>

----------------------------------------------------------------------------
(* Each specification below runs one component; the variables of the other
   components stay at these values. *)

\* the monitoring agent does not run
MonQuiet ==
    /\ baseline_metrics = [t \in {} |-> 0]
    /\ mon_obs = 0
    /\ mon_last = <<>>

\* the canary agent does not run
CanQuiet ==
    /\ ai_available = FALSE
    /\ can_pc = "idle"
    /\ can_msg = <<>>
    /\ can_sample = {}
    /\ can_metrics = <<>>
    /\ can_storage = [tests_run |-> 0, incidents_prevented |-> 0, ai_decisions |-> 0]
    /\ can_result = <<>>
    /\ can_raised = FALSE
    /\ can_handled = 0

\* no _fallback_decision call is made
FbQuiet ==
    /\ fb_metrics = [error_rate |-> [n |-> 0, d |-> 1], latency_impact |-> 0]
    /\ fb_decision = <<>>

\* the response agent does not run
RespQuiet ==
    /\ resp_variant = "ResponseAgent"
    /\ lava_available = FALSE
    /\ resp_pc = "idle"
    /\ resp_alert = <<>>
    /\ resp_canary = <<>>
    /\ resp_outcome = <<>>
    /\ resp_decision = <<>>
    /\ resp_action = <<>>
    /\ resp_runbook = <<>>
    /\ resp_sent = <<>>
    /\ resp_storage = [actions_taken |-> 0, incidents_resolved |-> 0, lava_requests |-> 0]
    /\ resp_handled = 0

\* no _rule_based_decision call is made
RbQuiet ==
    /\ rb_table = "ResponseAgent"
    /\ rb_alert = [alert_id |-> "ALERT-1", severity |-> "LOW", system_id |-> "server-0", metric_type |-> "CPU",
                   current_value |-> 0, confidence |-> 0, recommendation |-> "NONE"]
    /\ rb_decision = <<>>

\* the communication agent does not run
ComQuiet ==
    /\ com_inbox = <<>>
    /\ status_page = <<>>
    /\ status_file = <<>>
    /\ com_storage = [notifications_sent |-> 0]
    /\ com_last = <<>>
    /\ com_arrived = <<>>
    /\ com_notified = <<>>
    /\ com_restarts = 0

\* no send_to_peer call is made
NetQuiet ==
    /\ reg_agents = {}
    /\ net_pc = "idle"
    /\ net_call = <<>>
    /\ net_result = <<>>
    /\ net_attempts = <<>>
    /\ net_delivered = <<>>
    /\ net_calls = 0

\* the agent processes that keep a registry
AgentProcs == {"canary_agent", "response_agent"}

\* agent_registry.json does not exist
NoFile == [kind |-> "none", data |-> <<>>]

\* no process has imported the registry module
DirQuiet ==
    /\ dir_file = NoFile
    /\ dir_agents = [p \in AgentProcs |-> <<>>]
    /\ dir_pc = [p \in AgentProcs |-> "down"]
    /\ dir_starts = [p \in AgentProcs |-> 0]
    /\ dir_reads = [p \in AgentProcs |-> 0]
    /\ dir_loaded = [p \in AgentProcs |-> <<>>]
    /\ dir_registered = [p \in AgentProcs |-> {}]
    /\ dir_failed = FALSE
    /\ dir_last = <<>>

\* no message is under way
WireQuiet ==
    /\ wire_pc = "idle"
    /\ wire_msg = <<>>
    /\ wire_log = <<>>

\* the incidents a message can be about: the alert_id of an AnomalyAlert or
\* the update_id of a CanaryTestResult
IncidentIds == {"ALERT-1", "UPDATE-1"}

\* the response agent's queue is empty and no handler runs
JobQuiet ==
    /\ job_queue = <<>>
    /\ job_handler = <<>>
    /\ job_inflight = [i \in IncidentIds |-> 0]
    /\ job_started = [i \in IncidentIds |-> 0]
    /\ job_arrived = 0

\* the mock infrastructure does not run
InfraQuiet ==
    /\ systems = [i \in {} |-> 0]
    /\ infra_last = <<>>
    /\ infra_requests = 0

\* the systems the monitor loop polls: data.get("systems", [])[:10] of GET
\* /systems, or the fallback list, cut down to the systems explored
MonitoredSystems == <<"server-0", "server-1">>

\* the monitor loop has polled nothing
WatchQuiet ==
    /\ infra_start = [i \in {} |-> 0]
    /\ watch_pos = 1
    /\ watch_last = [i \in {} |-> 0]

\* the response agent has taken up no message yet
CountQuiet == resp_acted = 0

\* no action id is followed
IdQuiet ==
    /\ id_variant = "ResponseAgent"
    /\ id_clock = 0
    /\ id_idle = 0
    /\ id_handler = <<>>
    /\ id_pending = {}
    /\ id_log = <<>>

MoreQuiet == WatchQuiet /\ CountQuiet /\ IdQuiet

\* the directory, the message schemas, the dispatcher, the mock
\* infrastructure and the monitor loop do not run
ExtQuiet == DirQuiet /\ WireQuiet /\ JobQuiet /\ InfraQuiet /\ MoreQuiet

\* the variables of the agents' handlers, of the transport and of the
\* monitor loop
agentVars == <<monVars, canVars, fbVars, respVars, rbVars, comVars, netVars, moreVars>>

----------------------------------------------------------------------------
(* Exact rationals *)

RECURSIVE GCD(_, _)
GCD(a, b) == IF b = 0 THEN a ELSE GCD(b, a % b)

Abs(x) == IF x < 0 THEN -x ELSE x

Max(a, b) == IF a >= b THEN a ELSE b

\* n/d in lowest terms (d > 0)
Rat(n, d) ==
    LET g == GCD(Abs(n), d)
    IN  IF g = 0 THEN [n |-> 0, d |-> 1] ELSE [n |-> n \div g, d |-> d \div g]

RatOfInt(i) == [n |-> i, d |-> 1]

\* the integer x is greater than the rational r * (fn / fd)
IntGtRatTimes(x, r, fn, fd) == x * r.d * fd > r.n * fn

----------------------------------------------------------------------------
(* Monitoring agent: src/agents/monitoring/monitoring_agent.py *)

\* bound on the number of detect_anomaly calls explored
MaxObs == 2

Systems == {"server-0", "server-1"}

\* sample values: 100 = 2.0 x 50 and 72 = 1.8 x 40 sit on the thresholds,
\* 101 and 73 just above; 10 is the error threshold itself, 11 just above
CpuSamples == {50, 60, 100, 101}
MemSamples == {40, 72, 73}
ErrSamples == {0, 10, 11}

\* collect_metrics: fixed readings the mock does not track
DiskUsage == 50
NetworkLatency == 20

\* thresholds of detect_anomaly
CpuFactorNum == 20      \* 2.0 = 20 / 10
MemFactorNum == 18      \* 1.8 = 18 / 10
FactorDen == 10
ErrorThreshold == 10
\* alpha = 0.1 = AlphaNum / AlphaDen
AlphaNum == 1
AlphaDen == 10

\* class SystemMetrics (the timestamp, a wall-clock reading no decision
\* reads, is left out)
SystemMetrics ==
    [system_id : Systems, cpu_usage : CpuSamples, memory_usage : MemSamples,
     disk_usage : {DiskUsage}, network_latency : {NetworkLatency},
     error_count : ErrSamples]

\* the baseline stored at the first observation of a system
FirstBaseline(metrics) ==
    [cpu |-> RatOfInt(metrics.cpu_usage),
     memory |-> RatOfInt(metrics.memory_usage),
     latency |-> metrics.network_latency,
     errors |-> metrics.error_count]

\* metrics.cpu_usage > baseline["cpu"] * 2.0
CpuAnomaly(metrics, baseline) ==
    IntGtRatTimes(metrics.cpu_usage, baseline.cpu, CpuFactorNum, FactorDen)

\* metrics.error_count > 10
ErrorSpike(metrics) == metrics.error_count > ErrorThreshold

\* metrics.memory_usage > baseline["memory"] * 1.8
MemoryAnomaly(metrics, baseline) ==
    IntGtRatTimes(metrics.memory_usage, baseline.memory, MemFactorNum, FactorDen)

\* a smoothing with the weights exchanged: (1 - alpha) * sample + alpha * old
Ema_WeightsSwapped(sample, old) ==
    Rat((AlphaDen - AlphaNum) * sample * old.d + AlphaNum * old.n,
        AlphaDen * old.d)

\* alpha * sample + (1 - alpha) * old
Ema(sample, old) ==
    Rat(AlphaNum * sample * old.d + (AlphaDen - AlphaNum) * old.n,
        AlphaDen * old.d)

\* the baseline after a non-anomalous observation: cpu and memory move,
\* latency and errors stay
EmaBaseline(metrics, baseline) ==
    [baseline EXCEPT !.cpu = Ema(metrics.cpu_usage, baseline.cpu),
                     !.memory = Ema(metrics.memory_usage, baseline.memory)]

\* class AnomalyAlert (alert_id and timestamp, wall-clock readings, left out)
CpuAlert(system_id, metrics, baseline) ==
    [severity |-> "HIGH", system_id |-> system_id, metric_type |-> "CPU",
     current_value |-> metrics.cpu_usage, expected_value |-> baseline.cpu,
     confidence |-> 90, recommendation |-> "INVESTIGATE_HIGH_CPU"]

ErrorAlert(system_id, metrics, baseline) ==
    [severity |-> "CRITICAL", system_id |-> system_id, metric_type |-> "ERRORS",
     current_value |-> metrics.error_count,
     expected_value |-> RatOfInt(baseline.errors),
     confidence |-> 95, recommendation |-> "ROLLBACK_IMMEDIATELY"]

MemoryAlert(system_id, metrics, baseline) ==
    [severity |-> "MEDIUM", system_id |-> system_id, metric_type |-> "MEMORY",
     current_value |-> metrics.memory_usage, expected_value |-> baseline.memory,
     confidence |-> 85, recommendation |-> "INVESTIGATE_MEMORY_LEAK"]

\* what detect_anomaly returns for a system that has a baseline:
\* <<>> for None, <<alert>> for an alert.  The checks run in the order of
\* the code: CPU, then error count, then memory.
ThresholdAlert(system_id, metrics, baseline) ==
    IF CpuAnomaly(metrics, baseline)
    THEN <<CpuAlert(system_id, metrics, baseline)>>
    ELSE IF ErrorSpike(metrics)
    THEN <<ErrorAlert(system_id, metrics, baseline)>>
    ELSE IF MemoryAnomaly(metrics, baseline)
    THEN <<MemoryAlert(system_id, metrics, baseline)>>
    ELSE <<>>

\* a detector that smooths the baseline before it looks at the thresholds
BaselineAfter_AlwaysSmoothed(system_id, metrics, baseline) ==
    EmaBaseline(metrics, baseline)

\* the baseline of a system after detect_anomaly on a system with a baseline
BaselineAfter(system_id, metrics, baseline) ==
    IF ThresholdAlert(system_id, metrics, baseline) = <<>>
    THEN EmaBaseline(metrics, baseline)
    ELSE baseline

\* a detector that checks the absolute error threshold before the bootstrap
DetectResult_NoBootstrap(bm, system_id, metrics) ==
    IF system_id \notin DOMAIN bm
    THEN IF ErrorSpike(metrics)
         THEN <<ErrorAlert(system_id, metrics, FirstBaseline(metrics))>>
         ELSE <<>>
    ELSE ThresholdAlert(system_id, metrics, bm[system_id])

\* detect_anomaly's return value
DetectResult(bm, system_id, metrics) ==
    IF system_id \notin DOMAIN bm
    THEN <<>>
    ELSE ThresholdAlert(system_id, metrics, bm[system_id])

\* self.baseline_metrics after detect_anomaly
DetectBaselines(bm, system_id, metrics) ==
    IF system_id \notin DOMAIN bm
    THEN [t \in DOMAIN bm \cup {system_id} |->
            IF t = system_id THEN FirstBaseline(metrics) ELSE bm[t]]
    ELSE [bm EXCEPT ![system_id] = BaselineAfter(system_id, metrics, bm[system_id])]

MonInit ==
    /\ baseline_metrics = [t \in {} |-> 0]
    /\ mon_obs = 0
    /\ mon_last = <<>>

\* one call detect_anomaly(system_id, metrics) with metrics present
DetectAnomaly ==
    \E metrics \in SystemMetrics :
        /\ mon_obs < MaxObs
        /\ UNCHANGED <<canVars, fbVars, respVars, rbVars, comVars, netVars, extVars>>
        /\ mon_obs' = mon_obs + 1
        /\ baseline_metrics' =
              DetectBaselines(baseline_metrics, metrics.system_id, metrics)
        /\ mon_last' =
              <<[system_id |-> metrics.system_id,
                 metrics |-> metrics,
                 result |-> DetectResult(baseline_metrics, metrics.system_id, metrics),
                 pre |-> IF metrics.system_id \in DOMAIN baseline_metrics
                         THEN <<baseline_metrics[metrics.system_id]>>
                         ELSE <<>>,
                 others |-> [t \in DOMAIN baseline_metrics \ {metrics.system_id}
                               |-> baseline_metrics[t]]]>>

InitMonitor == MonInit /\ CanQuiet /\ FbQuiet /\ RespQuiet /\ RbQuiet /\ ComQuiet /\ NetQuiet /\ ExtQuiet

NextMonitor == DetectAnomaly

SpecMonitor == InitMonitor /\ [][NextMonitor]_vars

----------------------------------------------------------------------------
(* Canary agent: src/agents/canary/canary_agent.py *)

\* bound on the number of UpdatePackages handled
MaxUpdates == 1

\* self.canary_percentage = 0.01 = CanaryPctNum / CanaryPctDen
CanaryPctNum == 1
CanaryPctDen == 100
\* self.test_duration
TestDuration == 30

\* lengths of the target lists explored: the empty list, one system, and
\* 150 systems, where 1 % of the list is 1.5; a list of 200 systems, where
\* two systems are drawn, is explored for the routine package
TargetSizes == {0, 1, 150}
LargeTargetSize == 200

\* a target list of n distinct systems
Targets(n) == [i \in 1..n |-> i]

\* version and description of the packages explored
UpdateTexts ==
    { [version |-> "1.0.1", description |-> "routine patch"],
      [version |-> "2.0.0-BROKEN", description |-> "routine patch"],
      [version |-> "1.0.2", description |-> "Faulty driver"] }

\* "broken" in update.version.lower()
VersionHasBroken(version) == version \in {"2.0.0-BROKEN"}

\* "faulty" in update.description.lower()
DescriptionHasFaulty(description) == description \in {"Faulty driver"}

\* class UpdatePackage (timestamp left out)
UpdatePackages ==
    { [update_id |-> "UPDATE-1", version |-> t.version,
       description |-> t.description, target_systems |-> Targets(n)]
        : t \in UpdateTexts, n \in TargetSizes }
    \cup { [update_id |-> "UPDATE-1", version |-> "1.0.1",
            description |-> "routine patch",
            target_systems |-> Targets(LargeTargetSize)] }

\* values of random.uniform(-0.1, 0.3), in thousandths: the ends, the
\* INVESTIGATE limit 0.2 and the next value above it
LatencySamples == {-100, 200, 201, 300}

\* the subsets of S with k elements: what random.sample(list, k) can return
\* for a list of distinct elements
RECURSIVE KSubsets(_, _)
KSubsets(S, k) ==
    IF k = 0 THEN {{}}
    ELSE UNION { { T \cup {x} : T \in KSubsets({y \in S : y > x}, k - 1) } : x \in S }

\* a count that rounds 1 % of the list to the nearest integer (ties to even,
\* as Python's round does)
CanaryCount_Rounded(total_systems) ==
    LET q == (total_systems * CanaryPctNum) \div CanaryPctDen
        r == (total_systems * CanaryPctNum) % CanaryPctDen
        rounded == IF 2 * r > CanaryPctDen \/ (2 * r = CanaryPctDen /\ q % 2 = 1)
                   THEN q + 1 ELSE q
    IN  Max(1, rounded)

\* max(1, int(total_systems * self.canary_percentage))
CanaryCount(total_systems) ==
    Max(1, (total_systems * CanaryPctNum) \div CanaryPctDen)

\* the broken-update test of the monitoring loop
LooksBroken(update) ==
    VersionHasBroken(update.version) \/ DescriptionHasFaulty(update.description)

\* the error counts the 30 iterations of the monitoring loop can reach
\* (warning_count and warning_rate feed only the log and the oracle's
\* prompt; the oracle's answer is unconstrained here, so they are left out)
ErrorCounts(update) == IF LooksBroken(update) THEN 0..TestDuration ELSE {0}

\* error_count / (canary_count * self.test_duration) if canary_count > 0 else 0
ErrorRate(error_count, canary_count) ==
    IF canary_count > 0 THEN Rat(error_count, canary_count * TestDuration)
    ELSE RatOfInt(0)

\* run_canary_test's return value
TestMetrics(update, canary_count, error_count, latency_impact) ==
    [canary_count |-> canary_count,
     total_systems |-> Len(update.target_systems),
     error_count |-> error_count,
     error_rate |-> ErrorRate(error_count, canary_count),
     latency_impact |-> latency_impact,
     test_duration |-> TestDuration]

\* thresholds of _fallback_decision: 0.05 and 0.01 as fractions of 100,
\* 0.2 in thousandths
RollbackErrNum == 5
InvestigateErrNum == 1
ErrRateDen == 100
LatencyLimit == 200

\* the rational r is greater than fn / fd
RatGtFrac(r, fn, fd) == r.n * fd > fn * r.d

\* a rule table whose ROLLBACK comparison is not strict
FallbackRecommendation_NotStrict(error_rate, latency_impact) ==
    IF ~RatGtFrac(Rat(RollbackErrNum, ErrRateDen), error_rate.n, error_rate.d)
    THEN "ROLLBACK"
    ELSE IF RatGtFrac(error_rate, InvestigateErrNum, ErrRateDen)
            \/ latency_impact > LatencyLimit
    THEN "INVESTIGATE"
    ELSE "DEPLOY"

\* a rule table whose latency comparison is not strict
FallbackRecommendation_LatencyNotStrict(error_rate, latency_impact) ==
    IF RatGtFrac(error_rate, RollbackErrNum, ErrRateDen)
    THEN "ROLLBACK"
    ELSE IF RatGtFrac(error_rate, InvestigateErrNum, ErrRateDen)
            \/ latency_impact >= LatencyLimit
    THEN "INVESTIGATE"
    ELSE "DEPLOY"

\* the recommendation of _fallback_decision
FallbackRecommendation(error_rate, latency_impact) ==
    IF RatGtFrac(error_rate, RollbackErrNum, ErrRateDen)
    THEN "ROLLBACK"
    ELSE IF RatGtFrac(error_rate, InvestigateErrNum, ErrRateDen)
            \/ latency_impact > LatencyLimit
    THEN "INVESTIGATE"
    ELSE "DEPLOY"

\* _fallback_decision
FallbackDecision(metrics) ==
    [recommendation |-> FallbackRecommendation(metrics.error_rate, metrics.latency_impact),
     reasoning |-> "Rule-based",
     confidence |-> 80,
     used_ai |-> FALSE]

\* What the Lava call can come to.  kind "fail": no 200 answer, a connection
\* error or a body that is not the expected JSON.  kind "json": Claude's JSON
\* object, which may lack the recommendation key (has_recommendation), may
\* name any action, and may carry fields of the wrong type (well_typed
\* FALSE: a confidence that is no number).
CanaryOracleOutcomes ==
    { [kind |-> "fail", has_recommendation |-> FALSE, recommendation |-> "",
       well_typed |-> TRUE] }
    \cup { [kind |-> "json", has_recommendation |-> TRUE, recommendation |-> r,
            well_typed |-> TRUE] : r \in {"DEPLOY", "ROLLBACK", "INVESTIGATE", "SCALE"} }
    \cup { [kind |-> "json", has_recommendation |-> FALSE, recommendation |-> "",
            well_typed |-> TRUE],
           [kind |-> "json", has_recommendation |-> TRUE, recommendation |-> "DEPLOY",
            well_typed |-> FALSE] }

\* LavaAIService._fallback_response
FallbackResponse ==
    [has_recommendation |-> TRUE, recommendation |-> "INVESTIGATE",
     confidence |-> 0, well_typed |-> TRUE, lava_request_id |-> ""]

\* LavaAIService.analyze_canary_deployment
AnalyzeCanaryDeployment(available, outcome) ==
    IF ~available \/ outcome.kind = "fail"
    THEN FallbackResponse
    ELSE [has_recommendation |-> outcome.has_recommendation,
          recommendation |-> outcome.recommendation,
          confidence |-> 85,
          well_typed |-> outcome.well_typed,
          lava_request_id |-> "req"]

\* a get_ai_decision without the ai_available guard: it takes the service's
\* answer whether or not the oracle is configured
GetAiDecision_NoGuard(available, outcome, metrics) ==
    LET ai_result == AnalyzeCanaryDeployment(available, outcome)
    IN  IF ~ai_result.well_typed
        THEN FallbackDecision(metrics)
        ELSE [recommendation |-> IF ai_result.has_recommendation
                                 THEN ai_result.recommendation
                                 ELSE "INVESTIGATE",
              reasoning |-> "AI Analysis",
              confidence |-> ai_result.confidence,
              used_ai |-> TRUE]

\* CanaryAgent.get_ai_decision: a field of the wrong type raises inside the
\* try block (the log line formats the confidence) and the handler falls
\* back to the rule table
GetAiDecision(available, outcome, metrics) ==
    IF ~available
    THEN FallbackDecision(metrics)
    ELSE LET ai_result == AnalyzeCanaryDeployment(available, outcome)
         IN  IF ~ai_result.well_typed
             THEN FallbackDecision(metrics)
             ELSE [recommendation |-> IF ai_result.has_recommendation
                                      THEN ai_result.recommendation
                                      ELSE "INVESTIGATE",
                   reasoning |-> "AI Analysis",
                   confidence |-> ai_result.confidence,
                   used_ai |-> TRUE]

\* a result whose success flag stands for "not rolled back"
BuildResult_SuccessUnlessRollback(update, metrics, decision) ==
    [update_id |-> update.update_id,
     success |-> (decision.recommendation # "ROLLBACK"),
     affected_systems |-> metrics.canary_count,
     error_rate |-> metrics.error_rate,
     latency_impact |-> metrics.latency_impact,
     recommendation |-> decision.recommendation,
     details |-> decision.reasoning]

\* class CanaryTestResult as handle_update builds it
BuildResult(update, metrics, decision) ==
    [update_id |-> update.update_id,
     success |-> (decision.recommendation = "DEPLOY"),
     affected_systems |-> metrics.canary_count,
     error_rate |-> metrics.error_rate,
     latency_impact |-> metrics.latency_impact,
     recommendation |-> decision.recommendation,
     details |-> decision.reasoning]

\* the storage updates of handle_update
StorageAfter(storage, decision) ==
    [tests_run |-> storage.tests_run + 1,
     ai_decisions |-> storage.ai_decisions + (IF decision.used_ai THEN 1 ELSE 0),
     incidents_prevented |->
        storage.incidents_prevented
            + (IF decision.recommendation = "ROLLBACK" THEN 1 ELSE 0)]

\* after __init__ and the startup handler; the oracle is configured or not
CanInit ==
    /\ ai_available \in BOOLEAN
    /\ can_pc = "idle"
    /\ can_msg = <<>>
    /\ can_sample = {}
    /\ can_metrics = <<>>
    /\ can_storage = [tests_run |-> 0, incidents_prevented |-> 0, ai_decisions |-> 0]
    /\ can_result = <<>>
    /\ can_raised = FALSE
    /\ can_handled = 0

\* handle_update up to the first await of run_canary_test: the canary
\* systems are drawn; random.sample raises ValueError when asked for more
\* systems than the list holds, which ends the handler
HandleUpdateSelect ==
    \E msg \in UpdatePackages :
        LET total_systems == Len(msg.target_systems)
            canary_count == CanaryCount(total_systems)
        IN  /\ can_pc = "idle"
            /\ can_handled < MaxUpdates
            /\ can_handled' = can_handled + 1
            /\ can_result' = <<>>
            /\ can_metrics' = <<>>
            /\ \/ /\ canary_count <= total_systems
                  /\ \E chosen \in KSubsets(1..total_systems, canary_count) :
                        can_sample' = { msg.target_systems[i] : i \in chosen }
                  /\ can_msg' = <<msg>>
                  /\ can_pc' = "monitoring"
                  /\ can_raised' = FALSE
               \/ /\ canary_count > total_systems
                  /\ can_sample' = {}
                  /\ can_msg' = <<msg>>
                  /\ can_pc' = "done"
                  /\ can_raised' = TRUE
            /\ UNCHANGED <<ai_available, can_storage>>
            /\ UNCHANGED <<monVars, fbVars, respVars, rbVars, comVars, netVars, extVars>>

\* the monitoring loop of run_canary_test and its return
RunCanaryTest ==
    /\ can_pc = "monitoring"
    /\ \E error_count \in ErrorCounts(can_msg[1]), latency_impact \in LatencySamples :
          can_metrics' = <<TestMetrics(can_msg[1], Cardinality(can_sample),
                                       error_count, latency_impact)>>
    /\ can_sample' = {}
    /\ can_pc' = "deciding"
    /\ UNCHANGED <<ai_available, can_msg, can_storage, can_result, can_raised,
                   can_handled>>
    /\ UNCHANGED <<monVars, fbVars, respVars, rbVars, comVars, netVars, extVars>>

\* the rest of handle_update: the decision, the result, the counters and
\* the send to the response agent (which delivers or not)
HandleUpdateDecide ==
    /\ can_pc = "deciding"
    /\ \E outcome \in (IF ai_available THEN CanaryOracleOutcomes
                       ELSE {CHOOSE o \in CanaryOracleOutcomes : o.kind = "fail"}),
          sent \in BOOLEAN :
          LET decision == GetAiDecision(ai_available, outcome, can_metrics[1])
          IN  /\ can_result' =
                    <<[result |-> BuildResult(can_msg[1], can_metrics[1], decision),
                       used_ai |-> decision.used_ai,
                       oracle |-> IF ai_available THEN outcome.kind ELSE "none",
                       sent |-> sent]>>
              /\ can_storage' = StorageAfter(can_storage, decision)
    /\ can_pc' = "done"
    /\ UNCHANGED <<ai_available, can_msg, can_sample, can_metrics, can_raised,
                   can_handled>>
    /\ UNCHANGED <<monVars, fbVars, respVars, rbVars, comVars, netVars, extVars>>

\* handle_update returns or has raised: its locals are gone
HandleUpdateReturn ==
    /\ can_pc = "done"
    /\ can_pc' = "idle"
    /\ can_msg' = <<>>
    /\ can_metrics' = <<>>
    /\ can_result' = <<>>
    /\ can_raised' = FALSE
    /\ UNCHANGED <<ai_available, can_sample, can_storage, can_handled>>
    /\ UNCHANGED <<monVars, fbVars, respVars, rbVars, comVars, netVars, extVars>>

InitCanary == CanInit /\ MonQuiet /\ FbQuiet /\ RespQuiet /\ RbQuiet /\ ComQuiet /\ NetQuiet /\ ExtQuiet

NextCanary ==
    \/ HandleUpdateSelect
    \/ RunCanaryTest
    \/ HandleUpdateDecide
    \/ HandleUpdateReturn

SpecCanary == InitCanary /\ [][NextCanary]_vars

----------------------------------------------------------------------------
(* The canary rule table as a function of its arguments *)

\* error rates explored: thousandths around the thresholds 0.01 and 0.05,
\* and rates the canary test produces (1/30, 3/60, 2/30)
ErrorRateSamples ==
    { Rat(n, 1000) : n \in {0, 9, 10, 11, 49, 50, 51, 1000} }
        \cup { Rat(1, 30), Rat(3, 60), Rat(2, 30) }

\* latency impacts explored, in thousandths
LatencyRuleSamples == {-100, 100, 199, 200, 201, 300}

FbInputs ==
    [error_rate : ErrorRateSamples, latency_impact : LatencyRuleSamples]

FbInit ==
    /\ fb_metrics \in FbInputs
    /\ fb_decision = <<>>

\* one call of _fallback_decision(metrics)
FallbackDecisionCall ==
    /\ fb_decision = <<>>
    /\ fb_decision' = <<FallbackDecision(fb_metrics)>>
    /\ UNCHANGED fb_metrics
    /\ UNCHANGED <<monVars, canVars, respVars, rbVars, comVars, netVars, extVars>>

InitCanaryRule == FbInit /\ MonQuiet /\ CanQuiet /\ RespQuiet /\ RbQuiet /\ ComQuiet /\ NetQuiet /\ ExtQuiet

NextCanaryRule == FallbackDecisionCall

SpecCanaryRule == InitCanaryRule /\ [][NextCanaryRule]_vars

----------------------------------------------------------------------------
(* Claims about detect_anomaly, stated on the last call made *)

MonCalled == mon_last # <<>>
MonCall == mon_last[1]
MonHadBaseline == MonCall.pre # <<>>
MonOld == MonCall.pre[1]
MonNew == baseline_metrics[MonCall.system_id]
MonAlerted == MonCall.result # <<>>
MonAlert == MonCall.result[1]

\* C1: the first detect_anomaly call for a subject returns no alert and
\* stores the sample itself as the subject's baseline, whatever the values.
C1_FirstObservationBootstraps ==
    (MonCalled /\ ~MonHadBaseline) =>
        /\ ~MonAlerted
        /\ MonCall.system_id \in DOMAIN baseline_metrics
        /\ MonNew.cpu = [n |-> MonCall.metrics.cpu_usage, d |-> 1]
        /\ MonNew.memory = [n |-> MonCall.metrics.memory_usage, d |-> 1]
        /\ MonNew.latency = MonCall.metrics.network_latency
        /\ MonNew.errors = MonCall.metrics.error_count

\* a first observation whose error count is above the absolute threshold
C1_Witness ==
    /\ MonCalled /\ ~MonHadBaseline
    /\ MonCall.metrics.error_count = 11
    /\ MonCall.metrics.cpu_usage = 101
    /\ ~MonAlerted
    /\ MonNew.errors = 11

\* C2: with a baseline, the thresholds are evaluated in the order error
\* count, CPU, memory: an error count above the threshold gives the CRITICAL
\* alert with ROLLBACK_IMMEDIATELY even when CPU is above 2.0 x baseline; the
\* HIGH CPU alert only when the error threshold is not tripped; the MEDIUM
\* memory alert only when neither of the first two trips.
C2_ErrorCountFirst ==
    (MonCalled /\ MonHadBaseline) =>
        /\ MonCall.metrics.error_count > 10 =>
              /\ MonAlerted
              /\ MonAlert.severity = "CRITICAL"
              /\ MonAlert.recommendation = "ROLLBACK_IMMEDIATELY"
        /\ (MonAlerted /\ MonAlert.severity = "HIGH") =>
              /\ MonCall.metrics.error_count <= 10
              /\ MonCall.metrics.cpu_usage * MonOld.cpu.d > 2 * MonOld.cpu.n
        /\ (MonAlerted /\ MonAlert.severity = "MEDIUM") =>
              /\ MonCall.metrics.error_count <= 10
              /\ MonCall.metrics.cpu_usage * MonOld.cpu.d <= 2 * MonOld.cpu.n
              /\ 10 * MonCall.metrics.memory_usage * MonOld.memory.d
                    > 18 * MonOld.memory.n

\* C3: with a baseline, a sample with cpu <= 2.0 x baseline cpu, error count
\* <= 10 and memory <= 1.8 x baseline memory returns no alert and replaces
\* the cpu and memory baselines by 0.1 * sample + 0.9 * old; baseline 50 and
\* sample 60 give 51.
C3_QuietSampleSmoothsBaseline ==
    (/\ MonCalled /\ MonHadBaseline
     /\ MonCall.metrics.cpu_usage * MonOld.cpu.d <= 2 * MonOld.cpu.n
     /\ MonCall.metrics.error_count <= 10
     /\ 10 * MonCall.metrics.memory_usage * MonOld.memory.d <= 18 * MonOld.memory.n)
    =>
        /\ ~MonAlerted
        /\ 10 * MonNew.cpu.n * MonOld.cpu.d
              = MonNew.cpu.d * (MonCall.metrics.cpu_usage * MonOld.cpu.d + 9 * MonOld.cpu.n)
        /\ 10 * MonNew.memory.n * MonOld.memory.d
              = MonNew.memory.d
                  * (MonCall.metrics.memory_usage * MonOld.memory.d + 9 * MonOld.memory.n)
        /\ (MonOld.cpu = [n |-> 50, d |-> 1] /\ MonCall.metrics.cpu_usage = 60)
              => MonNew.cpu = [n |-> 51, d |-> 1]

\* baseline cpu 50, sample cpu 60, nothing tripped: the new baseline is 51
C3_Witness ==
    /\ MonCalled /\ MonHadBaseline
    /\ MonOld.cpu = [n |-> 50, d |-> 1]
    /\ MonCall.metrics.cpu_usage = 60
    /\ MonCall.metrics.error_count = 10
    /\ MonOld.memory = [n |-> 40, d |-> 1]
    /\ MonCall.metrics.memory_usage = 72
    /\ ~MonAlerted
    /\ MonNew.cpu = [n |-> 51, d |-> 1]

\* C4: a call returns at most one alert; when it returns one, the subject's
\* baseline is what it was before the call, and a baseline that changed was
\* changed by a call that returned no alert.
C4_AlertLeavesBaseline ==
    MonCalled =>
        /\ Len(MonCall.result) <= 1
        /\ (MonAlerted => (MonHadBaseline /\ MonNew = MonOld))
        /\ ((~MonHadBaseline \/ MonNew # MonOld) => ~MonAlerted)

\* a call that returned an alert although its memory sample was quiet
C4_Witness ==
    /\ MonCalled /\ MonHadBaseline /\ MonAlerted
    /\ MonAlert.metric_type = "CPU"
    /\ MonCall.metrics.memory_usage # MonOld.memory.n
    /\ MonNew = MonOld

----------------------------------------------------------------------------
(* Response agents: src/agents/response/response_agent.py (ResponseAgent),
   intelligent_response_agent.py (IntelligentResponseAgent) and
   lava_response_agent.py (LavaResponseAgent, a subclass of ResponseAgent).
   One of the three runs under the name response_agent. *)

\* bound on the number of messages the response agent handles
MaxMessages == 1

Variants == {"ResponseAgent", "IntelligentResponseAgent", "LavaResponseAgent"}

Severities == {"LOW", "MEDIUM", "HIGH", "CRITICAL"}
\* the metric types and recommendations the monitoring agent sends, and one
\* more of each that no rule names
MetricTypes == {"CPU", "MEMORY", "ERRORS", "DISK"}
AlertRecommendations ==
    {"INVESTIGATE_HIGH_CPU", "INVESTIGATE_MEMORY_LEAK", "ROLLBACK_IMMEDIATELY", "NONE"}
\* current values on and around the limits 90 and 95
AlertValues == {50, 90, 91, 95, 96}

\* class AnomalyAlert as the response agent reads it (confidence in
\* hundredths; expected_value and timestamp, which no decision reads, left
\* out)
AnomalyAlerts ==
    [alert_id : {"ALERT-1"},
     severity : Severities, system_id : {"server-0"}, metric_type : MetricTypes,
     current_value : AlertValues, confidence : {90},
     recommendation : AlertRecommendations]

\* "CPU" in s, "HIGH_CPU" in s and "MEMORY" in s, for the strings above
ContainsCPU(s) == s \in {"CPU", "INVESTIGATE_HIGH_CPU"}
ContainsHighCpu(s) == s \in {"INVESTIGATE_HIGH_CPU"}
ContainsMemory(s) == s \in {"MEMORY", "INVESTIGATE_MEMORY_LEAK"}

\* limits of the rule tables
CpuRestartLimit == 90
MemoryRestartLimit == 95

\* IntelligentResponseAgent._rule_based_decision
RuleBasedDecisionIntelligent(alert) ==
    IF alert.severity = "CRITICAL" \/ alert.recommendation = "ROLLBACK_IMMEDIATELY"
    THEN "ROLLBACK"
    ELSE IF ContainsCPU(alert.metric_type) \/ ContainsHighCpu(alert.recommendation)
    THEN (IF alert.current_value > CpuRestartLimit THEN "RESTART" ELSE "SCALE_UP")
    ELSE IF ContainsMemory(alert.metric_type) \/ ContainsMemory(alert.recommendation)
    THEN (IF alert.current_value > MemoryRestartLimit THEN "RESTART" ELSE "INVESTIGATE")
    ELSE IF alert.severity = "HIGH"
    THEN "ISOLATE"
    ELSE "INVESTIGATE"

\* ResponseAgent._rule_based_decision (inherited by LavaResponseAgent)
RuleBasedDecisionBasic(alert) ==
    IF alert.recommendation = "ROLLBACK_IMMEDIATELY"
    THEN "ROLLBACK"
    ELSE IF ContainsCPU(alert.metric_type) \/ ContainsHighCpu(alert.recommendation)
    THEN (IF alert.current_value > CpuRestartLimit THEN "RESTART" ELSE "SCALE_UP")
    ELSE IF ContainsMemory(alert.metric_type)
    THEN (IF alert.current_value > MemoryRestartLimit THEN "RESTART" ELSE "INVESTIGATE")
    ELSE IF alert.severity = "HIGH"
    THEN "ISOLATE"
    ELSE "INVESTIGATE"

\* self._rule_based_decision of the running class
RuleBasedDecision(variant, alert) ==
    IF variant = "IntelligentResponseAgent"
    THEN RuleBasedDecisionIntelligent(alert)
    ELSE RuleBasedDecisionBasic(alert)

\* load_runbooks of the running class
Runbooks(variant) ==
    IF variant = "IntelligentResponseAgent"
    THEN {"ROLLBACK", "FAILOVER", "SCALE_UP", "SCALE_DOWN", "ISOLATE", "INVESTIGATE",
          "RESTART"}
    ELSE {"ROLLBACK", "FAILOVER", "SCALE_UP", "ISOLATE", "INVESTIGATE", "RESTART"}

\* confidences in hundredths
IntelligentThreshold == 70
LavaThreshold == 75
DefaultConfidence == 75
ParsedConfidence == 70

\* confidences an answer can carry: none, and the values on and just above
\* the two thresholds
OracleConfidences == {0, 70, 71, 75, 76}

\* actions an answer can name: two runbooks of both tables, one of the
\* intelligent table only, and a name that is in neither
OracleActions == {"ROLLBACK", "RESTART", "SCALE_DOWN", "SCALE"}

\* the ways the Lava call of analyze_incident fails: a status other than
\* 200, an aiohttp.ClientError, a timeout, a body that is not JSON, a body
\* without the content list, Claude's JSON being no object, and a confidence
\* that the log line cannot format as a number
IncidentFailureKinds ==
    {"status", "client_error", "timeout", "body_not_json", "unexpected_structure",
     "content_not_object", "confidence_not_number"}

\* What the Lava call of analyze_incident can come to.  A failure kind;
\* kind "text": Claude answered in prose, which
\* _parse_natural_language_response searches for an action name; kind
\* "json": Claude's JSON object, which may lack the recommendation or the
\* confidence key, and whose recommendation may be no string (well_typed
\* FALSE).  request_id is the x-lava-request-id header.
IncidentOracleOutcomes ==
    { [kind |-> k, has_recommendation |-> FALSE, recommendation |-> "",
       has_confidence |-> FALSE, confidence |-> 0, well_typed |-> TRUE,
       request_id |-> ""] : k \in IncidentFailureKinds }
    \cup { [kind |-> "text", has_recommendation |-> TRUE, recommendation |-> r,
            has_confidence |-> FALSE, confidence |-> 0, well_typed |-> TRUE,
            request_id |-> "req-1"]
            : r \in {"ROLLBACK", "INVESTIGATE"} }
    \cup { [kind |-> "json", has_recommendation |-> TRUE, recommendation |-> r,
            has_confidence |-> TRUE, confidence |-> c, well_typed |-> TRUE,
            request_id |-> "req-1"]
            : r \in OracleActions, c \in OracleConfidences }
    \cup { [kind |-> "json", has_recommendation |-> FALSE, recommendation |-> "",
            has_confidence |-> TRUE, confidence |-> 76, well_typed |-> TRUE,
            request_id |-> "req-1"],
           [kind |-> "json", has_recommendation |-> TRUE, recommendation |-> "RESTART",
            has_confidence |-> FALSE, confidence |-> 0, well_typed |-> TRUE,
            request_id |-> "req-1"],
           [kind |-> "json", has_recommendation |-> TRUE, recommendation |-> "RESTART",
            has_confidence |-> TRUE, confidence |-> 76, well_typed |-> TRUE,
            request_id |-> ""] }
    \cup { [kind |-> "json", has_recommendation |-> TRUE, recommendation |-> "",
            has_confidence |-> TRUE, confidence |-> c, well_typed |-> FALSE,
            request_id |-> "req-1"] : c \in {70, 76} }

\* the outcome that stands for "no call was made"
NoCall == CHOOSE o \in IncidentOracleOutcomes : o.kind = "status"

\* a fallback response that claims full confidence
IncidentFallbackResponse_Confident ==
    [recommendation |-> "INVESTIGATE", confidence |-> 100, well_typed |-> TRUE,
     lava_request_id |-> ""]

\* LavaAIService._fallback_response, as analyze_incident returns it
IncidentFallbackResponse ==
    [recommendation |-> "INVESTIGATE", confidence |-> 0, well_typed |-> TRUE,
     lava_request_id |-> ""]

\* LavaAIService.analyze_incident: every failure inside it is caught and
\* answered by _fallback_response
AnalyzeIncident(available, outcome) ==
    IF ~available \/ outcome.kind \in IncidentFailureKinds
    THEN IncidentFallbackResponse
    ELSE IF outcome.kind = "text"
    THEN [recommendation |-> outcome.recommendation,
          confidence |-> ParsedConfidence,
          well_typed |-> TRUE,
          lava_request_id |-> outcome.request_id]
    ELSE [recommendation |-> IF outcome.has_recommendation
                             THEN outcome.recommendation ELSE "INVESTIGATE",
          confidence |-> IF outcome.has_confidence
                         THEN outcome.confidence ELSE DefaultConfidence,
          well_typed |-> outcome.well_typed,
          lava_request_id |-> outcome.request_id]

\* an intelligent agent that takes the oracle's answer at the threshold too
DecideIntelligent_AtThreshold(available, outcome, alert) ==
    IF available
    THEN LET analysis == AnalyzeIncident(available, outcome)
         IN  IF analysis.confidence >= IntelligentThreshold
             THEN [action_type |-> analysis.recommendation, reason |-> "AI",
                   lava_request_id |-> analysis.lava_request_id,
                   analysis |-> <<analysis>>]
             ELSE [action_type |-> RuleBasedDecisionIntelligent(alert),
                   reason |-> "Rule-based (AI confidence too low)",
                   lava_request_id |-> "", analysis |-> <<analysis>>]
    ELSE [action_type |-> RuleBasedDecisionIntelligent(alert),
          reason |-> "Rule-based", lava_request_id |-> "", analysis |-> <<>>]

\* the decision part of IntelligentResponseAgent.execute_emergency_response
DecideIntelligent(available, outcome, alert) ==
    IF available
    THEN LET analysis == AnalyzeIncident(available, outcome)
         IN  IF analysis.confidence > IntelligentThreshold
             THEN [action_type |-> analysis.recommendation, reason |-> "AI",
                   lava_request_id |-> analysis.lava_request_id,
                   analysis |-> <<analysis>>]
             ELSE [action_type |-> RuleBasedDecisionIntelligent(alert),
                   reason |-> "Rule-based (AI confidence too low)",
                   lava_request_id |-> "", analysis |-> <<analysis>>]
    ELSE [action_type |-> RuleBasedDecisionIntelligent(alert),
          reason |-> "Rule-based", lava_request_id |-> "", analysis |-> <<>>]

\* the decision part of ResponseAgent.execute_emergency_response
DecideBasic(alert) ==
    [action_type |-> RuleBasedDecisionBasic(alert), reason |-> "Rule-based",
     lava_request_id |-> "", analysis |-> <<>>]

\* the decision part of LavaResponseAgent.execute_emergency_response: the
\* service is always asked; at low confidence the superclass decides
DecideLava(available, outcome, alert) ==
    LET ai_analysis == AnalyzeIncident(available, outcome)
    IN  IF ai_analysis.confidence > LavaThreshold
        THEN [action_type |-> ai_analysis.recommendation,
              reason |-> "Claude Analysis (Lava)",
              lava_request_id |-> "", analysis |-> <<ai_analysis>>]
        ELSE [DecideBasic(alert) EXCEPT !.analysis = <<ai_analysis>>]

\* the decision of the running class
Decide(variant, available, outcome, alert) ==
    IF variant = "IntelligentResponseAgent"
    THEN DecideIntelligent(available, outcome, alert)
    ELSE IF variant = "LavaResponseAgent"
    THEN DecideLava(available, outcome, alert)
    ELSE DecideBasic(alert)

\* the decision took the oracle's recommendation
UsedOracle(decision) == decision.reason \in {"AI", "Claude Analysis (Lava)"}

\* the outcomes to explore: one stand-in where the running class makes no call
OutcomesFor(variant, available) ==
    IF variant = "ResponseAgent" \/ ~available
    THEN {NoCall}
    ELSE IncidentOracleOutcomes

\* an executor that leaves the status of an action without a runbook as it is
StatusAfterRunbook_Untouched(variant, action_type) ==
    IF action_type \in Runbooks(variant)
    THEN "COMPLETED"
    ELSE "INITIATED"

\* the status a runbook execution ends in: an action type without a runbook
\* runs the INVESTIGATE runbook in the intelligent agent and fails in the
\* other two
StatusAfterRunbook(variant, action_type) ==
    IF action_type \in Runbooks(variant) \/ variant = "IntelligentResponseAgent"
    THEN "COMPLETED"
    ELSE "FAILED"

\* whether execute_emergency_response counts the incident as resolved: the
\* oracle path of LavaResponseAgent returns without touching the counter
CountsResolved(variant, decision) ==
    ~(variant = "LavaResponseAgent" /\ UsedOracle(decision))

\* CanaryTestResult messages as the response agent reads them
CanaryResults ==
    [update_id : {"UPDATE-1"}, recommendation : {"DEPLOY", "ROLLBACK", "INVESTIGATE"},
     details : {"Rule-based", "AI Analysis"}]

\* after __init__ and the startup handler of one of the three classes
\* (lava_requests is a key of the intelligent agent's storage only; in the
\* other two it is never written and stays 0 here)
RespInit ==
    /\ resp_variant \in Variants
    /\ lava_available \in BOOLEAN
    /\ resp_pc = "idle"
    /\ resp_alert = <<>>
    /\ resp_canary = <<>>
    /\ resp_outcome = <<>>
    /\ resp_decision = <<>>
    /\ resp_action = <<>>
    /\ resp_runbook = <<>>
    /\ resp_sent = <<>>
    /\ resp_storage = [actions_taken |-> 0, incidents_resolved |-> 0, lava_requests |-> 0]
    /\ resp_handled = 0

\* handle_anomaly for a severity that is neither HIGH nor CRITICAL: nothing
HandleAnomalyIgnored ==
    \E msg \in AnomalyAlerts :
        /\ resp_pc = "idle"
        /\ resp_handled < MaxMessages
        /\ msg.severity \notin {"HIGH", "CRITICAL"}
        /\ resp_handled' = resp_handled + 1
        /\ resp_alert' = <<msg>>
        /\ resp_pc' = "done"
        /\ UNCHANGED <<resp_variant, lava_available, resp_canary, resp_outcome,
                       resp_decision, resp_action, resp_runbook, resp_sent,
                       resp_storage>>
        /\ UNCHANGED <<monVars, canVars, fbVars, rbVars, comVars, netVars, extVars>>

\* the readings of datetime.now().timestamp(), in whole seconds
ClockSeconds == {1000}

\* f"ACTION-{int(datetime.now().timestamp())}"
TimeActionId(now) == "ACTION-" \o ToString(now)

\* f"ACTION-LAVA-{alert.alert_id}"
LavaActionId(alert_id) == "ACTION-LAVA-" \o alert_id

\* the action_id execute_emergency_response gives the action: the oracle
\* path of LavaResponseAgent names it after the alert, every other path
\* after the clock
ActionId(variant, decision, alert, now) ==
    IF variant = "LavaResponseAgent" /\ UsedOracle(decision)
    THEN LavaActionId(alert.alert_id)
    ELSE TimeActionId(now)

\* whether the running class sends a request to the oracle for an alert
AsksOracle(variant, available) == variant # "ResponseAgent" /\ available

\* ResponseAction(action_type=...) raises a validation error when the
\* action type taken from the oracle is no string
ActionRaises(decision) ==
    /\ UsedOracle(decision)
    /\ ~decision.analysis[1].well_typed

\* handle_anomaly, execute_emergency_response up to the runbook: the oracle
\* is asked (if the class asks), the action type is decided and the
\* ResponseAction is created; if its creation raises, the handler ends there
HandleAnomalyDecide ==
    \E msg \in AnomalyAlerts :
        /\ resp_pc = "idle"
        /\ resp_handled < MaxMessages
        /\ msg.severity \in {"HIGH", "CRITICAL"}
        /\ resp_handled' = resp_handled + 1
        /\ resp_alert' = <<msg>>
        /\ \E outcome \in OutcomesFor(resp_variant, lava_available),
              now \in ClockSeconds :
              LET decision == Decide(resp_variant, lava_available, outcome, msg)
              IN  /\ resp_outcome' = IF AsksOracle(resp_variant, lava_available)
                                     THEN <<outcome>> ELSE <<>>
                  /\ resp_decision' = <<decision>>
                  /\ IF ActionRaises(decision)
                     THEN /\ resp_action' = <<>>
                          /\ resp_pc' = "raised"
                     ELSE /\ resp_action' =
                                <<[action_id |->
                                      ActionId(resp_variant, decision, msg, now),
                                   action_type |-> decision.action_type,
                                   target_systems |-> <<msg.system_id>>,
                                   reason |-> decision.reason,
                                   status |-> "INITIATED",
                                   lava_request_id |-> decision.lava_request_id]>>
                          /\ resp_pc' = "executing"
        /\ resp_acted' = resp_acted + 1
        /\ UNCHANGED <<resp_variant, lava_available, resp_canary, resp_runbook,
                       resp_sent, resp_storage>>
        /\ UNCHANGED <<monVars, canVars, fbVars, rbVars, comVars, netVars>>
        /\ UNCHANGED <<dirVars, wireVars, jobVars, infraVars, watchVars, idVars>>

\* handle_canary_result for a recommendation other than ROLLBACK: nothing
HandleCanaryIgnored ==
    \E msg \in CanaryResults :
        /\ resp_pc = "idle"
        /\ resp_handled < MaxMessages
        /\ msg.recommendation # "ROLLBACK"
        /\ resp_handled' = resp_handled + 1
        /\ resp_canary' = <<msg>>
        /\ resp_pc' = "done"
        /\ UNCHANGED <<resp_variant, lava_available, resp_alert, resp_outcome,
                       resp_decision, resp_action, resp_runbook, resp_sent,
                       resp_storage>>
        /\ UNCHANGED <<monVars, canVars, fbVars, rbVars, comVars, netVars, extVars>>

\* handle_canary_result, execute_rollback up to the runbook
HandleCanaryRollback ==
    \E msg \in CanaryResults :
        /\ resp_pc = "idle"
        /\ resp_handled < MaxMessages
        /\ msg.recommendation = "ROLLBACK"
        /\ resp_handled' = resp_handled + 1
        /\ resp_canary' = <<msg>>
        /\ \E now \in ClockSeconds : resp_action' =
              <<[action_id |-> TimeActionId(now),
                 action_type |-> "ROLLBACK",
                 target_systems |-> <<"all">>,
                 reason |-> "Canary test failed",
                 status |-> "INITIATED",
                 lava_request_id |-> ""]>>
        /\ resp_pc' = "executing"
        /\ resp_acted' = resp_acted + 1
        /\ UNCHANGED <<resp_variant, lava_available, resp_alert, resp_outcome,
                       resp_decision, resp_runbook, resp_sent, resp_storage>>
        /\ UNCHANGED <<monVars, canVars, fbVars, rbVars, comVars, netVars>>
        /\ UNCHANGED <<dirVars, wireVars, jobVars, infraVars, watchVars, idVars>>

\* the runbook that execute_emergency_response runs for an action type:
\* its own, or, for a type without a runbook, INVESTIGATE in the intelligent
\* agent and none in the other two
RunbookRun(variant, action_type) ==
    IF action_type \in Runbooks(variant)
    THEN <<action_type>>
    ELSE IF variant = "IntelligentResponseAgent"
    THEN <<"INVESTIGATE">>
    ELSE <<>>

\* the rest of execute_emergency_response or execute_rollback: the runbook
\* runs, the action gets its final status and the incident is counted
RunRunbook ==
    /\ resp_pc = "executing"
    /\ LET action == resp_action[1]
           from_alert == resp_alert # <<>>
           status == IF from_alert
                     THEN StatusAfterRunbook(resp_variant, action.action_type)
                     ELSE "COMPLETED"
           resolved == IF from_alert
                       THEN CountsResolved(resp_variant, resp_decision[1])
                       ELSE TRUE
       IN  /\ resp_runbook' = IF from_alert
                              THEN RunbookRun(resp_variant, action.action_type)
                              ELSE <<"ROLLBACK">>
           /\ resp_action' = <<[action EXCEPT !.status = status]>>
           /\ resp_storage' =
                 [resp_storage EXCEPT
                     !.incidents_resolved = @ + (IF resolved THEN 1 ELSE 0)]
    /\ resp_pc' = "sending"
    /\ UNCHANGED <<resp_variant, lava_available, resp_alert, resp_canary,
                   resp_outcome, resp_decision, resp_sent, resp_handled>>
    /\ UNCHANGED <<monVars, canVars, fbVars, rbVars, comVars, netVars, extVars>>

\* back in the handler: the counters are written and the action is sent to
\* the communication agent, which the transport delivers or not
SendActionStep(delivered) ==
    /\ resp_pc = "sending"
    /\ LET tracked == /\ resp_alert # <<>>
                      /\ resp_variant = "IntelligentResponseAgent"
                      /\ resp_action[1].lava_request_id # ""
       IN  resp_storage' =
              [resp_storage EXCEPT
                  !.actions_taken = @ + 1,
                  !.lava_requests = @ + (IF tracked THEN 1 ELSE 0)]
    /\ resp_sent' = <<delivered>>
    /\ resp_pc' = "done"
    /\ UNCHANGED <<resp_variant, lava_available, resp_alert, resp_canary,
                   resp_outcome, resp_decision, resp_action, resp_runbook,
                   resp_handled>>

\* the same, seen from the response agent alone
SendAction ==
    /\ \E delivered \in BOOLEAN : SendActionStep(delivered)
    /\ UNCHANGED <<monVars, canVars, fbVars, rbVars, comVars, netVars, extVars>>

\* the handler returns or has raised: its locals are gone
ResponseHandlerReturn ==
    /\ resp_pc \in {"done", "raised"}
    /\ resp_pc' = "idle"
    /\ resp_alert' = <<>>
    /\ resp_canary' = <<>>
    /\ resp_outcome' = <<>>
    /\ resp_decision' = <<>>
    /\ resp_action' = <<>>
    /\ resp_runbook' = <<>>
    /\ resp_sent' = <<>>
    /\ UNCHANGED <<resp_variant, lava_available, resp_storage, resp_handled>>
    /\ UNCHANGED <<monVars, canVars, fbVars, rbVars, comVars, netVars, extVars>>

InitResponse == RespInit /\ MonQuiet /\ CanQuiet /\ FbQuiet /\ RbQuiet /\ ComQuiet /\ NetQuiet /\ ExtQuiet

NextResponse ==
    \/ HandleAnomalyIgnored
    \/ HandleAnomalyDecide
    \/ HandleCanaryIgnored
    \/ HandleCanaryRollback
    \/ RunRunbook
    \/ SendAction
    \/ ResponseHandlerReturn

SpecResponse == InitResponse /\ [][NextResponse]_vars

----------------------------------------------------------------------------
(* The rule tables of the response agents as functions of the alert *)

RuleTables == {"ResponseAgent", "IntelligentResponseAgent"}

RbInit ==
    /\ rb_table \in RuleTables
    /\ rb_alert \in AnomalyAlerts
    /\ rb_decision = <<>>

\* one call of _rule_based_decision(alert)
RuleBasedDecisionCall ==
    /\ rb_decision = <<>>
    /\ rb_decision' = <<RuleBasedDecision(rb_table, rb_alert)>>
    /\ UNCHANGED <<rb_table, rb_alert>>
    /\ UNCHANGED <<monVars, canVars, fbVars, respVars, comVars, netVars, extVars>>

InitRuleTable == RbInit /\ MonQuiet /\ CanQuiet /\ FbQuiet /\ RespQuiet /\ ComQuiet /\ NetQuiet /\ ExtQuiet

NextRuleTable == RuleBasedDecisionCall

SpecRuleTable == InitRuleTable /\ [][NextRuleTable]_vars

----------------------------------------------------------------------------
(* Communication agent: src/agents/communication/communication_agent.py *)

\* bounds on the ResponseActions delivered from outside and on the restarts
MaxDeliveries == 2
MaxRestarts == 1

\* class ResponseAction as handle_action reads it (action_type and reason,
\* which only go into the title and the description, and the timestamp left
\* out).  run is the number of the response-agent handler run that sent it,
\* 0 for an action from elsewhere; it is no field of the message.
ResponseActionsSeen ==
    [run : {0}, action_id : {"ACTION-1000", "ACTION-LAVA-ALERT-1"},
     status : {"INITIATED", "COMPLETED", "FAILED"},
     target_systems : {<<"server-0">>, <<"all">>}]

\* a notifier for which every finished action is resolved
StatusUpdateFor_FailedResolved(msg) ==
    [incident_id |-> msg.action_id,
     status |-> IF msg.status # "INITIATED" THEN "RESOLVED" ELSE "MITIGATING",
     affected_services |-> msg.target_systems]

\* the StatusUpdate handle_action builds (title, description and timestamp
\* left out)
StatusUpdateFor(msg) ==
    [incident_id |-> msg.action_id,
     status |-> IF msg.status = "COMPLETED" THEN "RESOLVED" ELSE "MITIGATING",
     affected_services |-> msg.target_systems]

\* a dispatcher that hands a message to the handler and keeps it queued
InboxAfter_Kept(inbox, i) == inbox

\* the queue after message i went to its handler
InboxAfter(inbox, i) ==
    SubSeq(inbox, 1, i - 1) \o SubSeq(inbox, i + 1, Len(inbox))

\* after __init__ and the startup handler of a first start: no
\* status_page.json yet
ComInit ==
    /\ com_inbox = <<>>
    /\ status_page = <<>>
    /\ status_file = <<>>
    /\ com_storage = [notifications_sent |-> 0]
    /\ com_last = <<>>
    /\ com_arrived = <<>>
    /\ com_notified = <<>>
    /\ com_restarts = 0

\* a ResponseAction from some sender arrives
DeliverAction ==
    \E msg \in ResponseActionsSeen :
        /\ Len(com_arrived) < MaxDeliveries
        /\ com_inbox' = Append(com_inbox, msg)
        /\ com_arrived' = Append(com_arrived, msg.run)
        /\ UNCHANGED <<status_page, status_file, com_storage, com_last,
                       com_notified, com_restarts>>
        /\ UNCHANGED <<monVars, canVars, fbVars, respVars, rbVars, netVars, extVars>>

\* handle_action for one delivered ResponseAction: the StatusUpdate is built,
\* publish_status_update appends it to the list and rewrites
\* status_page.json from the list (a failure to open the file is caught and
\* leaves the file as it was), send_notifications logs, and the counter is
\* written
HandleAction ==
    \E i \in 1..Len(com_inbox), wrote \in BOOLEAN :
        LET msg == com_inbox[i]
            status == StatusUpdateFor(msg)
        IN  /\ com_inbox' = InboxAfter(com_inbox, i)
            /\ status_page' = Append(status_page, status)
            /\ status_file' = IF wrote THEN status_page' ELSE status_file
            /\ com_storage' =
                  [notifications_sent |-> com_storage.notifications_sent + 1]
            /\ com_last' = <<[msg |-> msg, status |-> status,
                              page_before |-> status_page,
                              sent_before |-> com_storage.notifications_sent,
                              wrote |-> wrote]>>
            /\ com_notified' = Append(com_notified, msg.run)
            /\ UNCHANGED <<com_arrived, com_restarts>>
            /\ UNCHANGED <<monVars, canVars, fbVars, respVars, rbVars, netVars, extVars>>

\* the process is started again (main.py restarts a crashed agent): __init__
\* and the startup handler run, status_page.json stays on disk
NotifierRestart ==
    /\ com_restarts < MaxRestarts
    /\ com_restarts' = com_restarts + 1
    /\ status_page' = <<>>
    /\ com_storage' = [notifications_sent |-> 0]
    /\ com_last' = <<>>
    /\ UNCHANGED <<com_inbox, status_file, com_arrived, com_notified>>
    /\ UNCHANGED <<monVars, canVars, fbVars, respVars, rbVars, netVars, extVars>>

InitNotifier ==
    ComInit /\ MonQuiet /\ CanQuiet /\ FbQuiet /\ RespQuiet /\ RbQuiet /\ NetQuiet /\ ExtQuiet

NextNotifier ==
    \/ DeliverAction
    \/ HandleAction
    \/ NotifierRestart

SpecNotifier == InitNotifier /\ [][NextNotifier]_vars

----------------------------------------------------------------------------
(* The response agent and the communication agent together *)

\* the ResponseAction as it reaches the communication agent, with the number
\* of the handler run that sent it
NotifierView(action, run) ==
    [run |-> run, action_id |-> action.action_id, status |-> action.status,
     target_systems |-> action.target_systems]

\* send_to_peer(ctx, "communication_agent", action) with its effect on the
\* communication agent
SendActionTo(delivered) ==
    /\ SendActionStep(delivered)
    /\ IF delivered
       THEN /\ com_inbox' = Append(com_inbox, NotifierView(resp_action[1], resp_handled))
            /\ com_arrived' = Append(com_arrived, resp_handled)
       ELSE UNCHANGED <<com_inbox, com_arrived>>
    /\ UNCHANGED <<status_page, status_file, com_storage, com_last, com_notified,
                   com_restarts>>
    /\ UNCHANGED <<monVars, canVars, fbVars, rbVars, netVars, extVars>>

\* the send, which the transport carries out or not
PipelineSendAction == \E delivered \in BOOLEAN : SendActionTo(delivered)

\* the send when every agent is registered and every send succeeds
ReliableSendAction == SendActionTo(TRUE)

InitPipeline ==
    RespInit /\ ComInit /\ MonQuiet /\ CanQuiet /\ FbQuiet /\ RbQuiet /\ NetQuiet /\ ExtQuiet

NextPipeline ==
    \/ HandleAnomalyIgnored
    \/ HandleAnomalyDecide
    \/ HandleCanaryIgnored
    \/ HandleCanaryRollback
    \/ RunRunbook
    \/ PipelineSendAction
    \/ ResponseHandlerReturn
    \/ HandleAction

SpecPipeline == InitPipeline /\ [][NextPipeline]_vars

InitPipelineLive ==
    RespInit /\ ComInit /\ MonQuiet /\ CanQuiet /\ FbQuiet /\ RbQuiet /\ NetQuiet /\ ExtQuiet

NextPipelineLive ==
    \/ HandleAnomalyIgnored
    \/ HandleAnomalyDecide
    \/ HandleCanaryIgnored
    \/ HandleCanaryRollback
    \/ RunRunbook
    \/ ReliableSendAction
    \/ ResponseHandlerReturn
    \/ HandleAction

\* every handler that has started runs on, and every delivered message is
\* dispatched
SpecPipelineLive ==
    /\ InitPipelineLive
    /\ [][NextPipelineLive]_vars
    /\ WF_vars(RunRunbook)
    /\ WF_vars(ReliableSendAction)
    /\ WF_vars(ResponseHandlerReturn)
    /\ WF_vars(HandleAction)

----------------------------------------------------------------------------
(* Transport: BaseSuraAgent.send_to_peer, src/agents/base_agent.py, over the
   registry of src/agents/registry.py *)

\* bound on the number of send_to_peer calls
MaxSends == 2

\* the peers the agents send to
PeerNames == {"response_agent", "communication_agent"}

\* str(agent.address) of a registered agent
AddressOf(name) == CASE name = "response_agent" -> "agent1q-response"
                     [] name = "communication_agent" -> "agent1q-communication"

\* the send_to_peer calls in the agents: caller, peer and message class
SendCalls ==
    { [caller |-> "canary_agent", peer_name |-> "response_agent",
       message |-> "CanaryTestResult"],
      [caller |-> "monitoring_agent", peer_name |-> "response_agent",
       message |-> "AnomalyAlert"],
      [caller |-> "response_agent", peer_name |-> "communication_agent",
       message |-> "ResponseAction"] }

\* what registry.agents can hold of the peers when the sends start: the
\* entries loaded from agent_registry.json (the caller's own entry, which no
\* send looks up, left out)
Registries ==
    UNION { [S -> {"agent1q-response", "agent1q-communication"}] : S \in SUBSET PeerNames }

\* a lookup that answers every name
GetPeerAddress_AlwaysFound(agents, peer_name) == << AddressOf(peer_name) >>

\* get_peer_address, registry.get_agent_address: <<address>>, or <<>> for None
GetPeerAddress(agents, peer_name) ==
    IF peer_name \in DOMAIN agents THEN << agents[peer_name] >> ELSE <<>>

\* what one await ctx.send(address, message) can come to: the message
\* reaches the recipient or not, and the call returns or raises; the value
\* it returns is not read
CtxSendOutcomes == [delivered : BOOLEAN, raises : BOOLEAN]

\* the try/except around ctx.send: True after a return, False after an
\* exception
SendToPeerResult(outcome) == ~outcome.raises

\* a caller that sends again after a failure
AfterSendToPeer_Retry(success) == IF success THEN "idle" ELSE "sending"

\* where the caller goes after send_to_peer returned: it logs the outcome
\* (canary agent) or ignores it (monitoring and response agents), and its
\* handler ends
AfterSendToPeer(success) == "idle"

\* after the registry was loaded
NetInit ==
    /\ reg_agents \in Registries
    /\ net_pc = "idle"
    /\ net_call = <<>>
    /\ net_result = <<>>
    /\ net_attempts = <<>>
    /\ net_delivered = <<>>
    /\ net_calls = 0

\* send_to_peer up to the ctx.send: the peer is looked up; without an
\* address the call returns False at once
SendToPeerLookup ==
    \E call \in SendCalls :
        LET address == GetPeerAddress(reg_agents, call.peer_name)
        IN  /\ net_pc = "idle"
            /\ net_calls < MaxSends
            /\ net_calls' = net_calls + 1
            /\ net_call' = <<[id |-> net_calls + 1, caller |-> call.caller,
                              peer_name |-> call.peer_name,
                              message |-> call.message, address |-> address]>>
            /\ IF address = <<>>
               THEN /\ net_result' = <<FALSE>>
                    /\ net_pc' = "returned"
               ELSE /\ net_result' = <<>>
                    /\ net_pc' = "sending"
            /\ UNCHANGED <<reg_agents, net_attempts, net_delivered>>
            /\ UNCHANGED <<monVars, canVars, fbVars, respVars, rbVars, comVars, extVars>>

\* the ctx.send inside try/except: an exception is caught and answered False
CtxSend ==
    \E outcome \in CtxSendOutcomes :
        LET call == net_call[1]
            record == [call |-> call.id, address |-> call.address[1],
                       message |-> call.message]
        IN  /\ net_pc = "sending"
            /\ call.address # <<>>
            /\ net_attempts' = Append(net_attempts,
                                      [call |-> call.id, raises |-> outcome.raises])
            /\ net_delivered' = IF outcome.delivered
                                THEN Append(net_delivered, record)
                                ELSE net_delivered
            /\ net_result' = <<SendToPeerResult(outcome)>>
            /\ net_pc' = "returned"
            /\ UNCHANGED <<reg_agents, net_call, net_calls>>
            /\ UNCHANGED <<monVars, canVars, fbVars, respVars, rbVars, comVars, extVars>>

\* the caller has the result and goes on
SendToPeerReturned ==
    /\ net_pc = "returned"
    /\ net_pc' = AfterSendToPeer(net_result[1])
    /\ IF net_pc' = "idle"
       THEN net_call' = <<>> /\ net_result' = <<>>
       ELSE UNCHANGED <<net_call, net_result>>
    /\ UNCHANGED <<reg_agents, net_attempts, net_delivered, net_calls>>
    /\ UNCHANGED <<monVars, canVars, fbVars, respVars, rbVars, comVars, extVars>>

InitTransport ==
    NetInit /\ MonQuiet /\ CanQuiet /\ FbQuiet /\ RespQuiet /\ RbQuiet /\ ComQuiet /\ ExtQuiet

NextTransport ==
    \/ SendToPeerLookup
    \/ CtxSend
    \/ SendToPeerReturned

SpecTransport == InitTransport /\ [][NextTransport]_vars

----------------------------------------------------------------------------
(* The agent directory: AgentRegistry, src/agents/registry.py.  Every agent
   process imports the module, which constructs that process's own
   AgentRegistry from agent_registry.json, and then registers itself
   (BaseSuraAgent.__init__).  A Python dict keeps insertion order: it is
   modelled as a sequence of [key, value] pairs. *)

\* bound on the number of starts of one agent process
MaxStarts == 2

\* sample addresses, ports and capability lists of an agent
Addresses == {"agent1q-a", "agent1q-b"}
Ports == {8101}
CapabilityLists == {<<"canary_testing">>}

\* the keys of a dict
Keys(d) == {d[i].key : i \in 1..Len(d)}

\* d[k] of a dict that has the key k
Get(d, k) == LET i == CHOOSE j \in 1..Len(d) : d[j].key = k IN d[i].value

\* a dict store that adds a second entry under a key the dict has
Put_Append(d, k, v) == Append(d, [key |-> k, value |-> v])

\* d[k] = v: the value under an existing key is replaced where it stands, a
\* new key goes to the end
Put(d, k, v) ==
    IF k \in Keys(d)
    THEN [i \in 1..Len(d) |-> IF d[i].key = k THEN [key |-> k, value |-> v] ELSE d[i]]
    ELSE Append(d, [key |-> k, value |-> v])

\* the dataclass AgentInfo: name, address, port and capabilities are
\* required, status and last_seen have defaults
RequiredFields == {"name", "address", "port", "capabilities"}
AgentInfoFields == RequiredFields \cup {"status", "last_seen"}

\* AgentInfo(name=..., address=..., port=..., capabilities=...)
NewAgentInfo(name, address, port, capabilities) ==
    [name |-> name, address |-> address, port |-> port,
     capabilities |-> capabilities, status |-> "active", last_seen |-> 0]

\* an AgentInfo(**info) that takes the status from the defaults
AgentInfoFrom_DefaultStatus(info) ==
    IF RequiredFields \subseteq DOMAIN info /\ DOMAIN info \subseteq AgentInfoFields
    THEN <<[name |-> info.name, address |-> info.address, port |-> info.port,
            capabilities |-> info.capabilities, status |-> "active",
            last_seen |-> IF "last_seen" \in DOMAIN info THEN info.last_seen ELSE 0]>>
    ELSE <<>>

\* AgentInfo(**info) for a JSON object info: <<the AgentInfo>>, or <<>> when
\* the constructor raises TypeError (a required field is missing, or info
\* has a key that is no field)
AgentInfoFrom(info) ==
    IF RequiredFields \subseteq DOMAIN info /\ DOMAIN info \subseteq AgentInfoFields
    THEN <<[name |-> info.name, address |-> info.address, port |-> info.port,
            capabilities |-> info.capabilities,
            status |-> IF "status" \in DOMAIN info THEN info.status ELSE "active",
            last_seen |-> IF "last_seen" \in DOMAIN info THEN info.last_seen ELSE 0]>>
    ELSE <<>>

\* the JSON object save_registry builds from registry.agents
SaveRegistry(agents) ==
    [i \in 1..Len(agents) |->
        [key |-> agents[i].key,
         value |-> [name |-> agents[i].value.name,
                    address |-> agents[i].value.address,
                    port |-> agents[i].value.port,
                    capabilities |-> agents[i].value.capabilities,
                    status |-> agents[i].value.status]]]

\* what the write in save_registry can come to: the file is written; open()
\* fails and the file stays as it was; the write fails after open(..., 'w')
\* has truncated the file.  The exception is logged and swallowed.
WriteOutcomes == {"ok", "open_failed", "partial"}

\* agent_registry.json holds something that is not JSON
CorruptFile == [kind |-> "corrupt", data |-> <<>>]

\* agent_registry.json after save_registry
FileAfterSave(file, agents, outcome) ==
    CASE outcome = "ok" -> [kind |-> "json", data |-> SaveRegistry(agents)]
      [] outcome = "open_failed" -> file
      [] outcome = "partial" -> CorruptFile

\* the loop of load_registry over data.items(): the first entry whose
\* AgentInfo(**info) raises ends the loop in the except branch, and the
\* entries stored before it stay
RECURSIVE LoadItems(_, _)
LoadItems(items, agents) ==
    IF items = <<>> THEN agents
    ELSE LET made == AgentInfoFrom(items[1].value)
         IN  IF made = <<>> THEN agents
             ELSE LoadItems(Tail(items), Put(agents, items[1].key, made[1]))

\* load_registry: no file, nothing to load; a file that is not JSON, the
\* exception is logged
LoadRegistry(file, agents) ==
    IF file.kind = "json" THEN LoadItems(file.data, agents) ELSE agents

\* registry.get_agent_address(name): <<address>>, or <<>> for None
GetAgentAddress(agents, name) ==
    IF name \in Keys(agents) THEN <<Get(agents, name).address>> ELSE <<>>

\* a register that takes the entry back when the file could not be written
AgentsAfterRegister_Transactional(agents, name, info, outcome) ==
    IF outcome = "ok" THEN Put(agents, name, info) ELSE agents

\* registry.agents after register(name, ...): the entry is stored before
\* save_registry runs, whatever the write comes to
AgentsAfterRegister(agents, name, info, outcome) == Put(agents, name, info)

\* one value of the file as the running code writes it
FileEntry(name, address, port, status) ==
    [key |-> name,
     value |-> [name |-> name, address |-> address, port |-> port,
                capabilities |-> <<>>, status |-> status]]

\* one value in the format {address, port, capabilities, status}
FourFieldEntry(name, address, port) ==
    [key |-> name,
     value |-> [address |-> address, port |-> port,
                capabilities |-> <<>>, status |-> "active"]]

\* one value that also carries last_seen
SeenEntry(name, address, port) ==
    [key |-> name,
     value |-> [name |-> name, address |-> address, port |-> port,
                capabilities |-> <<"monitoring">>, status |-> "inactive",
                last_seen |-> 5]]

\* the files a process may find at its start: none, one that is not JSON,
\* files an earlier run wrote, hand-edited files
SampleFiles ==
    {NoFile, CorruptFile,
     [kind |-> "json", data |-> <<FileEntry("canary_agent", "agent1q-a", 8001, "active")>>],
     [kind |-> "json", data |-> <<SeenEntry("monitoring_agent", "agent1q-m", 8000),
                                  FileEntry("response_agent", "agent1q-b", 8002, "active")>>],
     [kind |-> "json", data |-> <<FourFieldEntry("canary_agent", "agent1q-a", 8001)>>],
     [kind |-> "json", data |-> <<FileEntry("monitoring_agent", "agent1q-m", 8000, "active"),
                                  FourFieldEntry("response_agent", "agent1q-b", 8002)>>]}

\* before any agent process has started
DirInit ==
    /\ dir_file \in SampleFiles
    /\ dir_agents = [p \in AgentProcs |-> <<>>]
    /\ dir_pc = [p \in AgentProcs |-> "down"]
    /\ dir_starts = [p \in AgentProcs |-> 0]
    /\ dir_reads = [p \in AgentProcs |-> 0]
    /\ dir_loaded = [p \in AgentProcs |-> <<>>]
    /\ dir_registered = [p \in AgentProcs |-> {}]
    /\ dir_failed = FALSE
    /\ dir_last = <<>>

\* a process imports agents.registry: registry = AgentRegistry(), which
\* starts empty and loads the file if there is one
ConstructRegistry ==
    \E p \in AgentProcs :
        /\ dir_pc[p] = "down"
        /\ dir_starts[p] < MaxStarts
        /\ dir_starts' = [dir_starts EXCEPT ![p] = @ + 1]
        /\ dir_agents' = [dir_agents EXCEPT ![p] = LoadRegistry(dir_file, <<>>)]
        /\ dir_reads' = [dir_reads EXCEPT ![p] = IF dir_file.kind = "none" THEN @ ELSE @ + 1]
        /\ dir_loaded' = [dir_loaded EXCEPT ![p] = <<dir_file>>]
        /\ dir_pc' = [dir_pc EXCEPT ![p] = "loaded"]
        /\ dir_registered' = [dir_registered EXCEPT ![p] = {}]
        /\ UNCHANGED <<dir_file, dir_failed, dir_last>>
        /\ UNCHANGED <<agentVars, wireVars, jobVars, infraVars>>

\* BaseSuraAgent.register_self: register(name, address, port, capabilities)
\* stores the entry and saves the whole map
RegisterSelf ==
    \E p \in AgentProcs, address \in Addresses, port \in Ports,
       capabilities \in CapabilityLists, outcome \in WriteOutcomes :
        LET info == NewAgentInfo(p, address, port, capabilities)
            after == AgentsAfterRegister(dir_agents[p], p, info, outcome)
        IN  /\ dir_pc[p] = "loaded"
            /\ dir_agents' = [dir_agents EXCEPT ![p] = after]
            /\ dir_file' = FileAfterSave(dir_file, after, outcome)
            /\ dir_failed' = (dir_failed \/ outcome # "ok")
            /\ dir_pc' = [dir_pc EXCEPT ![p] = "running"]
            /\ dir_registered' = [dir_registered EXCEPT ![p] = @ \cup {p}]
            /\ dir_last' = <<[proc |-> p, name |-> p, address |-> address,
                              port |-> port, capabilities |-> capabilities,
                              before |-> dir_agents[p],
                              outcome |-> outcome]>>
            /\ UNCHANGED <<dir_starts, dir_reads, dir_loaded>>
            /\ UNCHANGED <<agentVars, wireVars, jobVars, infraVars>>

\* the process ends (the orchestrator terminates or restarts it): its
\* memory is gone, the file stays
StopProcess ==
    \E p \in AgentProcs :
        /\ dir_pc[p] = "running"
        /\ dir_pc' = [dir_pc EXCEPT ![p] = "down"]
        /\ dir_agents' = [dir_agents EXCEPT ![p] = <<>>]
        /\ UNCHANGED <<dir_file, dir_starts, dir_reads, dir_loaded, dir_registered,
                       dir_failed, dir_last>>
        /\ UNCHANGED <<agentVars, wireVars, jobVars, infraVars>>

\* the handlers and the transport do not run
AgentsQuiet ==
    /\ MonQuiet /\ CanQuiet /\ FbQuiet /\ RespQuiet /\ RbQuiet /\ ComQuiet /\ NetQuiet
    /\ MoreQuiet

InitDirectory == DirInit /\ AgentsQuiet /\ WireQuiet /\ JobQuiet /\ InfraQuiet

NextDirectory ==
    \/ ConstructRegistry
    \/ RegisterSelf
    \/ StopProcess

SpecDirectory == InitDirectory /\ [][NextDirectory]_vars

----------------------------------------------------------------------------
(* Message schemas.  An agent sends an instance of the class that the
   message's name denotes in the sender's file, and a receiver handles the
   messages of the class it passed to on_message(model=...).  uagents
   identifies a message type by the digest of the class's schema (its name,
   its fields with their types, and which of them are required), so a
   handler receives a message exactly when the two schemas are the same. *)

\* bound on the number of messages sent
MaxWire == 2

\* one field of a Model class
Field(name, type, required) == [name |-> name, type |-> type, required |-> required]

\* class ResponseAction of response_agent.py
ResponseActionBasic ==
    {Field("action_id", "str", TRUE), Field("action_type", "str", TRUE),
     Field("target_systems", "List[str]", TRUE), Field("reason", "str", TRUE),
     Field("status", "str", TRUE), Field("timestamp", "float", TRUE)}

\* class ResponseAction of messages.py and of intelligent_response_agent.py
ResponseActionTracked ==
    ResponseActionBasic \cup {Field("lava_request_id", "str", FALSE)}

\* class AnomalyAlert of messages.py and of monitoring_agent.py
AnomalyAlertFields ==
    {Field("alert_id", "str", TRUE), Field("severity", "str", TRUE),
     Field("system_id", "str", TRUE), Field("metric_type", "str", TRUE),
     Field("current_value", "float", TRUE), Field("expected_value", "float", TRUE),
     Field("confidence", "float", TRUE), Field("timestamp", "float", TRUE),
     Field("recommendation", "str", TRUE)}

\* class CanaryTestResult of messages.py
CanaryTestResultFields ==
    {Field("update_id", "str", TRUE), Field("success", "bool", TRUE),
     Field("affected_systems", "int", TRUE), Field("error_rate", "float", TRUE),
     Field("latency_impact", "float", TRUE), Field("recommendation", "str", TRUE),
     Field("details", "str", TRUE)}

\* the fields of the class named model that the module defines
ModelDefinition(module, model) ==
    CASE model = "ResponseAction" /\ module = "agents.response.response_agent"
            -> ResponseActionBasic
      [] model = "ResponseAction" /\ module # "agents.response.response_agent"
            -> ResponseActionTracked
      [] model = "AnomalyAlert" -> AnomalyAlertFields
      [] model = "CanaryTestResult" -> CanaryTestResultFields

\* the module whose class a message name denotes in the file of an agent:
\* a class defined in the file shadows an imported one, and a later import
\* replaces an earlier one
ModelUsedBy(agent, model) ==
    CASE model = "ResponseAction" /\ agent \in {"ResponseAgent", "LavaResponseAgent"}
            -> "agents.response.response_agent"
      [] model = "ResponseAction" /\ agent = "IntelligentResponseAgent"
            -> "agents.response.intelligent_response_agent"
      [] model = "ResponseAction" /\ agent = "CommunicationAgent"
            -> "agents.messages"
      [] model = "AnomalyAlert" -> "agents.monitoring.monitoring_agent"
      [] model = "CanaryTestResult" -> "agents.messages"

\* who sends which message to whom
Routes ==
    {[sender |-> "MonitoringAgent", receiver |-> v, model |-> "AnomalyAlert"]
        : v \in Variants}
    \cup {[sender |-> "CanaryAgent", receiver |-> v, model |-> "CanaryTestResult"]
        : v \in Variants}
    \cup {[sender |-> v, receiver |-> "CommunicationAgent", model |-> "ResponseAction"]
        : v \in Variants}

\* what the schema digest of a class is computed from
SchemaDigest(module, model) ==
    [title |-> model, properties |-> ModelDefinition(module, model)]

\* the receiver has a handler for a message with this digest
Accepts(receiver, model, digest) ==
    digest = SchemaDigest(ModelUsedBy(receiver, model), model)

\* no message yet
WireInit ==
    /\ wire_pc = "idle"
    /\ wire_msg = <<>>
    /\ wire_log = <<>>

\* send_to_peer(ctx, receiver, message) with a message of the sender's class
WireSend ==
    \E route \in Routes :
        /\ wire_pc = "idle"
        /\ Len(wire_log) < MaxWire
        /\ wire_msg' = <<[sender |-> route.sender, receiver |-> route.receiver,
                          model |-> route.model,
                          digest |-> SchemaDigest(ModelUsedBy(route.sender, route.model),
                                                  route.model)]>>
        /\ wire_pc' = "sent"
        /\ UNCHANGED wire_log
        /\ UNCHANGED <<agentVars, dirVars, jobVars, infraVars>>

\* the receiving agent looks up the handler of the message's digest
WireDispatch ==
    /\ wire_pc = "sent"
    /\ LET msg == wire_msg[1]
       IN  wire_log' = Append(wire_log,
              [sender |-> msg.sender, receiver |-> msg.receiver, model |-> msg.model,
               sent_fields |-> {f.name : f \in msg.digest.properties},
               handler_fields |->
                   {f.name : f \in ModelDefinition(ModelUsedBy(msg.receiver, msg.model),
                                                   msg.model)},
               accepted |-> Accepts(msg.receiver, msg.model, msg.digest)])
    /\ wire_msg' = <<>>
    /\ wire_pc' = "idle"
    /\ UNCHANGED <<agentVars, dirVars, jobVars, infraVars>>

InitWire == WireInit /\ AgentsQuiet /\ DirQuiet /\ JobQuiet /\ InfraQuiet

NextWire ==
    \/ WireSend
    \/ WireDispatch

SpecWire == InitWire /\ [][NextWire]_vars

----------------------------------------------------------------------------
(* The response agent's handler runs.  The agent's run loop (agent.run(),
   uagents) takes one message at a time from the agent's queue and awaits
   its handler before it takes the next; the handlers of the repository
   await the runbook they start (await self.runbooks[action_type](...),
   await self.runbook_rollback(...)), and the agent keeps no record of the
   incidents it is working on: active_incidents is never written. *)

\* bound on the number of messages that arrive
MaxArrivals == 3

\* the messages that arrive: the incident, and whether the handler acts on
\* it (a HIGH or CRITICAL alert, a ROLLBACK result) or only logs it
JobMessages == [id : IncidentIds, acts : BOOLEAN]

\* the run loop takes the next message only when no handler is running
MayDispatch(handler) == handler = <<>>

\* a handler that starts the runbook as a task of its own and goes on
AfterRunbookStart_FireAndForget(id) == "returning"

\* the handler after it has called the runbook: it awaits the end of it
AfterRunbookStart(id) == "awaiting"

JobInit ==
    /\ job_queue = <<>>
    /\ job_handler = <<>>
    /\ job_inflight = [i \in IncidentIds |-> 0]
    /\ job_started = [i \in IncidentIds |-> 0]
    /\ job_arrived = 0

\* an AnomalyAlert or a CanaryTestResult arrives; nothing keeps a second
\* message about the same incident out
JobArrive ==
    \E msg \in JobMessages :
        /\ job_arrived < MaxArrivals
        /\ job_arrived' = job_arrived + 1
        /\ job_queue' = Append(job_queue, msg)
        /\ UNCHANGED <<job_handler, job_inflight, job_started>>
        /\ UNCHANGED <<agentVars, dirVars, wireVars, infraVars>>

\* the run loop calls the handler of the next message
JobDispatch ==
    /\ MayDispatch(job_handler)
    /\ job_queue # <<>>
    /\ job_handler' = <<[id |-> Head(job_queue).id, acts |-> Head(job_queue).acts,
                         stage |-> "entered"]>>
    /\ job_queue' = Tail(job_queue)
    /\ UNCHANGED <<job_inflight, job_started, job_arrived>>
    /\ UNCHANGED <<agentVars, dirVars, wireVars, infraVars>>

\* handle_anomaly / handle_canary_result: a message the handler does not act
\* on ends the handler, any other starts the runbook
JobHandle ==
    /\ job_handler # <<>>
    /\ job_handler[1].stage = "entered"
    /\ LET id == job_handler[1].id
       IN  IF job_handler[1].acts
           THEN /\ job_inflight' = [job_inflight EXCEPT ![id] = @ + 1]
                /\ job_started' = [job_started EXCEPT ![id] = @ + 1]
                /\ job_handler' = <<[job_handler[1] EXCEPT
                                        !.stage = AfterRunbookStart(id)]>>
           ELSE /\ job_handler' = <<[job_handler[1] EXCEPT !.stage = "returning"]>>
                /\ UNCHANGED <<job_inflight, job_started>>
    /\ UNCHANGED <<job_queue, job_arrived>>
    /\ UNCHANGED <<agentVars, dirVars, wireVars, infraVars>>

\* a runbook comes to its end (its asyncio.sleep is over); the handler that
\* awaits it goes on
JobRunbookEnds ==
    \E id \in IncidentIds :
        /\ job_inflight[id] > 0
        /\ job_inflight' = [job_inflight EXCEPT ![id] = @ - 1]
        /\ job_handler' =
              IF /\ job_handler # <<>>
                 /\ job_handler[1].stage = "awaiting"
                 /\ job_handler[1].id = id
              THEN <<[job_handler[1] EXCEPT !.stage = "returning"]>>
              ELSE job_handler
        /\ UNCHANGED <<job_queue, job_started, job_arrived>>
        /\ UNCHANGED <<agentVars, dirVars, wireVars, infraVars>>

\* the handler returns to the run loop
JobReturn ==
    /\ job_handler # <<>>
    /\ job_handler[1].stage = "returning"
    /\ job_handler' = <<>>
    /\ UNCHANGED <<job_queue, job_inflight, job_started, job_arrived>>
    /\ UNCHANGED <<agentVars, dirVars, wireVars, infraVars>>

InitJobs == JobInit /\ AgentsQuiet /\ DirQuiet /\ WireQuiet /\ InfraQuiet

NextJobs ==
    \/ JobArrive
    \/ JobDispatch
    \/ JobHandle
    \/ JobRunbookEnds
    \/ JobReturn

SpecJobs == InitJobs /\ [][NextJobs]_vars

----------------------------------------------------------------------------
(* The mock infrastructure: src/services/mock_infrastructure.py.  One
   request is handled at a time (as the tests issue them); cpu and memory
   are kept as "normal" (the random start values) or "high" (95.0 and 98.0
   after simulate-failure). *)

\* bound on the number of requests
MaxRequests == 3

\* the systems explored, of server-0 .. server-99, and an id that is none
SystemIds == {"server-0", "server-1"}
UnknownIds == {"server-100"}

\* the versions a deploy asks for
DeployVersions == {"1.5.0"}

\* a system at the start of the service
FreshSystem == [status |-> "healthy", load |-> "normal", version |-> "1.0.0",
                updated |-> FALSE]

\* a rollback that leaves the status alone
AfterRollback_VersionOnly(system) == [system EXCEPT !.version = "1.0.0"]

\* rollback_system: the version and the status are reset
AfterRollback(system) == [system EXCEPT !.version = "1.0.0", !.status = "healthy"]

\* simulate_failure: the status, cpu and memory are set
AfterSimulateFailure(system) == [system EXCEPT !.status = "failed", !.load = "high"]

\* deploy_update on one system: random.random() < 0.05 makes it fail,
\* otherwise it gets the version
AfterDeploy(system, version, fails) ==
    IF fails THEN [system EXCEPT !.status = "failed"]
    ELSE [system EXCEPT !.version = version, !.updated = TRUE]

InfraInit ==
    /\ systems = [i \in SystemIds |-> FreshSystem]
    /\ infra_last = <<>>
    /\ infra_requests = 0

\* POST /rollback/{system_id}
RollbackSystem ==
    \E system_id \in SystemIds \cup UnknownIds :
        /\ infra_requests < MaxRequests
        /\ infra_requests' = infra_requests + 1
        /\ IF system_id \notin DOMAIN systems
           THEN /\ systems' = systems
                /\ infra_last' = <<[request |-> "rollback", system_id |-> system_id,
                                    code |-> 404, status |-> "", before |-> systems]>>
           ELSE /\ systems' = [systems EXCEPT ![system_id] = AfterRollback(@)]
                /\ infra_last' = <<[request |-> "rollback", system_id |-> system_id,
                                    code |-> 200, status |-> "rolled_back",
                                    before |-> systems]>>
        /\ UNCHANGED <<agentVars, dirVars, wireVars, jobVars>>

\* POST /simulate-failure/{system_id}
SimulateFailure ==
    \E system_id \in SystemIds \cup UnknownIds :
        /\ infra_requests < MaxRequests
        /\ infra_requests' = infra_requests + 1
        /\ IF system_id \notin DOMAIN systems
           THEN /\ systems' = systems
                /\ infra_last' = <<[request |-> "simulate-failure",
                                    system_id |-> system_id,
                                    code |-> 404, status |-> "", before |-> systems]>>
           ELSE /\ systems' = [systems EXCEPT ![system_id] = AfterSimulateFailure(@)]
                /\ infra_last' = <<[request |-> "simulate-failure",
                                    system_id |-> system_id,
                                    code |-> 200, status |-> "failure_simulated",
                                    before |-> systems]>>
        /\ UNCHANGED <<agentVars, dirVars, wireVars, jobVars>>

\* POST /deploy: every target that exists fails or gets the version
DeployUpdate ==
    \E targets \in SUBSET (SystemIds \cup UnknownIds), version \in DeployVersions :
        \E failed \in SUBSET (targets \cap DOMAIN systems) :
            /\ targets # {}
            /\ infra_requests < MaxRequests
            /\ infra_requests' = infra_requests + 1
            /\ systems' = [i \in DOMAIN systems |->
                              IF i \in targets
                              THEN AfterDeploy(systems[i], version, i \in failed)
                              ELSE systems[i]]
            /\ infra_last' = <<[request |-> "deploy", system_id |-> "",
                                code |-> 200, status |-> "", before |-> systems]>>
            /\ UNCHANGED <<agentVars, dirVars, wireVars, jobVars>>

InitInfra == InfraInit /\ AgentsQuiet /\ DirQuiet /\ WireQuiet /\ JobQuiet

NextInfra ==
    \/ RollbackSystem
    \/ SimulateFailure
    \/ DeployUpdate

SpecInfra == InitInfra /\ [][NextInfra]_vars

----------------------------------------------------------------------------
(* The monitor loop against the mock infrastructure.
   MonitoringAgent.monitor_loop polls GET /system/{id} for each monitored
   system in turn and sleeps between two cycles, while simulate-failure and
   rollback requests change the systems.  One poll (the GET, detect_anomaly
   and what the loop does with its result) is one step.  A system's cpu and
   memory are drawn once, when the service starts, and change only by
   simulate-failure. *)

\* random.uniform(20, 40) and random.uniform(30, 50): the ends of the cpu
\* range and the upper end of the memory range
StartCpu == {20, 40}
StartMemory == {50}

\* the cpu and memory simulate_failure sets
FailedCpu == 95
FailedMemory == 98

\* the error_count collect_metrics reports for a status other than healthy
UnhealthyErrors == 10

\* get_system: the record of the system as JSON
GetSystem(system, start) ==
    [status |-> system.status,
     cpu |-> IF system.load = "high" THEN FailedCpu ELSE start.cpu,
     memory |-> IF system.load = "high" THEN FailedMemory ELSE start.memory]

\* collect_metrics for a 200 answer with the body data
CollectMetrics(system_id, data) ==
    [system_id |-> system_id,
     cpu_usage |-> data.cpu,
     memory_usage |-> data.memory,
     disk_usage |-> DiskUsage,
     network_latency |-> NetworkLatency,
     error_count |-> IF data.status = "healthy" THEN 0 ELSE UnhealthyErrors]

\* a detector that takes a failed collection for a reading of zeros
Observe_ZeroOnFailure(bm, system_id, collected) ==
    LET metrics == IF collected = <<>>
                   THEN CollectMetrics(system_id,
                                       [status |-> "healthy", cpu |-> 0, memory |-> 0])
                   ELSE collected[1]
    IN  [result |-> DetectResult(bm, system_id, metrics),
         baselines |-> DetectBaselines(bm, system_id, metrics)]

\* detect_anomaly(system_id, metrics) with metrics None (collected = <<>>)
\* or present: what it returns and self.baseline_metrics after it
Observe(bm, system_id, collected) ==
    IF collected = <<>>
    THEN [result |-> <<>>, baselines |-> bm]
    ELSE [result |-> DetectResult(bm, system_id, collected[1]),
          baselines |-> DetectBaselines(bm, system_id, collected[1])]

\* the loop's position after the system at index pos: the next system, or
\* the sleep that ends the cycle
AfterSystem(pos) == IF pos < Len(MonitoredSystems) THEN pos + 1 ELSE 0

\* the mock service has started and monitor_loop has its list of systems
WatchInit ==
    /\ infra_start \in [SystemIds -> [cpu : StartCpu, memory : StartMemory]]
    /\ watch_pos = 1
    /\ watch_last = [i \in SystemIds |-> <<>>]

\* one pass through the body of the for loop, with what collect_metrics
\* returned; an exception after detect_anomaly is caught by the loop
Poll(collected) ==
    LET system_id == MonitoredSystems[watch_pos]
        observed == Observe(baseline_metrics, system_id, collected)
    IN  /\ baseline_metrics' = observed.baselines
        /\ watch_last' =
              [watch_last EXCEPT ![system_id] =
                  <<[collected |-> collected,
                     result |-> observed.result,
                     before |-> IF system_id \in DOMAIN baseline_metrics
                                THEN <<baseline_metrics[system_id]>>
                                ELSE <<>>]>>]
        /\ watch_pos' = AfterSystem(watch_pos)
        /\ UNCHANGED <<mon_obs, mon_last, infra_start, countVars, idVars>>
        /\ UNCHANGED <<canVars, fbVars, respVars, rbVars, comVars, netVars>>
        /\ UNCHANGED <<dirVars, wireVars, jobVars, infraVars>>

\* the GET answers 200
PollReads ==
    /\ watch_pos >= 1
    /\ LET system_id == MonitoredSystems[watch_pos]
       IN  Poll(<<CollectMetrics(system_id,
                                 GetSystem(systems[system_id], infra_start[system_id]))>>)

\* the GET fails (connection refused, timeout, a status other than 200) and
\* collect_metrics returns None
PollFails ==
    /\ watch_pos >= 1
    /\ Poll(<<>>)

\* await asyncio.sleep(self.monitoring_interval), then the next cycle
WatchSleep ==
    /\ watch_pos = 0
    /\ watch_pos' = 1
    /\ UNCHANGED <<monVars, infra_start, watch_last, countVars, idVars>>
    /\ UNCHANGED <<canVars, fbVars, respVars, rbVars, comVars, netVars>>
    /\ UNCHANGED <<dirVars, wireVars, jobVars, infraVars>>

InitWatch ==
    /\ WatchInit /\ InfraInit /\ CountQuiet /\ IdQuiet
    /\ MonQuiet /\ CanQuiet /\ FbQuiet /\ RespQuiet /\ RbQuiet /\ ComQuiet /\ NetQuiet
    /\ DirQuiet /\ WireQuiet /\ JobQuiet

NextWatch ==
    \/ PollReads
    \/ PollFails
    \/ WatchSleep
    \/ SimulateFailure
    \/ RollbackSystem

SpecWatch == InitWatch /\ [][NextWatch]_vars

\* the monitor loop while the mock service answers every GET
NextWatchLive ==
    \/ PollReads
    \/ WatchSleep
    \/ SimulateFailure
    \/ RollbackSystem

\* the loop never ends (while True): each poll and each sleep comes to its
\* end
SpecWatchLive ==
    /\ InitWatch
    /\ [][NextWatchLive]_vars
    /\ WF_vars(PollReads)
    /\ WF_vars(WatchSleep)

\* ------------------------------------------------------------------------
\* The action ids of one response agent against the wall clock
\* ------------------------------------------------------------------------

\* the clock counts half seconds, the shortest asyncio.sleep of a runbook
TicksPerSecond == 2

\* int(datetime.now().timestamp()) at clock reading now
WholeSecond(now) == now \div TicksPerSecond

\* the clock readings a run starts at: first and second half of one second
StartTicks == {2000, 2001}

\* the longest the agent waits for its next message, in half seconds
MaxIdleTicks == 2

\* a runbook that returns at once
RunbookTicks_Instant(variant, run) == 0

\* the time the asyncio.sleep calls of a runbook take together, in half
\* seconds; run is the runbook that runs, <<>> where none does
RunbookTicks(variant, run) ==
    IF run = <<>>
    THEN 0
    ELSE IF variant = "IntelligentResponseAgent"
    THEN CASE run[1] = "ROLLBACK" -> 4
           [] run[1] = "FAILOVER" -> 6
           [] run[1] = "SCALE_UP" -> 4
           [] run[1] = "SCALE_DOWN" -> 4
           [] run[1] = "ISOLATE" -> 2
           [] run[1] = "INVESTIGATE" -> 3
           [] run[1] = "RESTART" -> 6
    ELSE CASE run[1] = "ROLLBACK" -> 4
           [] run[1] = "FAILOVER" -> 6
           [] run[1] = "SCALE_UP" -> 4
           [] run[1] = "ISOLATE" -> 2
           [] run[1] = "INVESTIGATE" -> 2
           [] run[1] = "RESTART" -> 4

\* the alerts that reach the agent: two subjects alerted in one pass of the
\* monitor loop, each by the memory rule, the error rule or a rule of another
\* sender
IdAlerts ==
    { a \in AnomalyAlerts :
        /\ a.severity = "HIGH"
        /\ a.current_value = 50
        /\ a.metric_type \in {"MEMORY", "ERRORS"}
        /\ a.recommendation \in {"ROLLBACK_IMMEDIATELY", "NONE"} }

\* f"ALERT-{system_id}-{int(datetime.now().timestamp())}" of the two subjects
IdAlertIds == {"ALERT-server-0-1000", "ALERT-server-1-1000"}

\* the messages that call for an action: one alert per alert id and one
\* canary result that recommends ROLLBACK
IdMessages == IdAlertIds \cup {"UPDATE-1"}

\* the ResponseActions handling message m at clock reading now can create,
\* each with the time its runbook sleeps
IdActionsFor(variant, m, now) ==
    IF m \in IdAlertIds
    THEN UNION {
           { [action_id |-> ActionId(variant, d, [a EXCEPT !.alert_id = m],
                                     WholeSecond(now)),
              status |-> StatusAfterRunbook(variant, d.action_type),
              target_systems |-> <<a.system_id>>,
              created |-> now,
              sleep |-> RunbookTicks(variant, RunbookRun(variant, d.action_type))]
             : d \in { dd \in { Decide(variant, TRUE, o, a)
                                : o \in OutcomesFor(variant, TRUE) }
                       : ~ActionRaises(dd) } }
           : a \in IdAlerts }
    ELSE { [action_id |-> TimeActionId(WholeSecond(now)),
            status |-> "COMPLETED",
            target_systems |-> <<"all">>,
            created |-> now,
            sleep |-> RunbookTicks(variant, <<"ROLLBACK">>)] }

IdInit ==
    /\ id_variant \in Variants
    /\ id_clock \in StartTicks
    /\ id_idle = 0
    /\ id_handler = <<>>
    /\ id_pending = IdMessages
    /\ id_log = <<>>

\* half a second passes: a sleeping runbook gets nearer to its end, an idle
\* agent goes on waiting
IdTick ==
    /\ IF id_handler = <<>>
       THEN /\ id_idle < MaxIdleTicks
            /\ id_idle' = id_idle + 1
            /\ id_handler' = id_handler
       ELSE /\ id_handler[1].sleep > 0
            /\ id_handler' = <<[sleep |-> id_handler[1].sleep - 1]>>
            /\ id_idle' = id_idle
    /\ id_clock' = id_clock + 1
    /\ UNCHANGED <<id_variant, id_pending, id_log>>
    /\ UNCHANGED <<monVars, canVars, fbVars, respVars, rbVars, comVars, netVars>>
    /\ UNCHANGED <<dirVars, wireVars, jobVars, infraVars, watchVars, countVars>>

\* handle_anomaly or handle_canary_result up to the runbook's first sleep:
\* the run loop hands the handler a message and the ResponseAction is created
IdHandle ==
    \E m \in id_pending :
        /\ MayDispatch(id_handler)
        /\ \E action \in IdActionsFor(id_variant, m, id_clock) :
              /\ id_log' = Append(id_log,
                                  [action_id |-> action.action_id,
                                   status |-> action.status,
                                   target_systems |-> action.target_systems,
                                   created |-> action.created])
              /\ id_handler' = <<[sleep |-> action.sleep]>>
        /\ id_pending' = id_pending \ {m}
        /\ id_idle' = 0
        /\ UNCHANGED <<id_variant, id_clock>>
        /\ UNCHANGED <<monVars, canVars, fbVars, respVars, rbVars, comVars, netVars>>
        /\ UNCHANGED <<dirVars, wireVars, jobVars, infraVars, watchVars, countVars>>

\* the runbook has slept its time: the handler sends the action and returns
IdReturn ==
    /\ id_handler # <<>>
    /\ id_handler[1].sleep = 0
    /\ id_handler' = <<>>
    /\ UNCHANGED <<id_variant, id_clock, id_idle, id_pending, id_log>>
    /\ UNCHANGED <<monVars, canVars, fbVars, respVars, rbVars, comVars, netVars>>
    /\ UNCHANGED <<dirVars, wireVars, jobVars, infraVars, watchVars, countVars>>

InitIds ==
    /\ IdInit /\ WatchQuiet /\ CountQuiet
    /\ MonQuiet /\ CanQuiet /\ FbQuiet /\ RespQuiet /\ RbQuiet /\ ComQuiet /\ NetQuiet
    /\ DirQuiet /\ WireQuiet /\ JobQuiet /\ InfraQuiet

NextIds == IdTick \/ IdHandle \/ IdReturn

SpecIds == InitIds /\ [][NextIds]_vars

----------------------------------------------------------------------------
(* Claims about the canary agent *)

\* the threshold table of the specification: error_rate > 0.05 is ROLLBACK,
\* else error_rate > 0.01 or latency_impact > 0.2 is INVESTIGATE, else
\* DEPLOY (error_rate a rational, latency_impact in thousandths)
CanonicalRecommendation(error_rate, latency_impact) ==
    IF 100 * error_rate.n > 5 * error_rate.d THEN "ROLLBACK"
    ELSE IF 100 * error_rate.n > error_rate.d \/ latency_impact > 200
    THEN "INVESTIGATE"
    ELSE "DEPLOY"

FbCalled == fb_decision # <<>>

\* C5: _fallback_decision classifies every (error_rate, latency_impact)
\* pair by the threshold table, with strict comparisons: 0.05 is not
\* ROLLBACK, 0.01 together with 0.2 is DEPLOY.
C5_RuleTable ==
    FbCalled =>
        /\ fb_decision[1].recommendation
              = CanonicalRecommendation(fb_metrics.error_rate, fb_metrics.latency_impact)
        /\ fb_metrics.error_rate = [n |-> 51, d |-> 1000]
              => fb_decision[1].recommendation = "ROLLBACK"
        /\ fb_metrics.error_rate = [n |-> 1, d |-> 20]
              => fb_decision[1].recommendation = "INVESTIGATE"
        /\ fb_metrics.error_rate = [n |-> 11, d |-> 1000]
              => fb_decision[1].recommendation = "INVESTIGATE"
        /\ (fb_metrics.error_rate = [n |-> 9, d |-> 1000]
                /\ fb_metrics.latency_impact = 100)
              => fb_decision[1].recommendation = "DEPLOY"
        /\ (fb_metrics.error_rate = [n |-> 1, d |-> 100]
                /\ fb_metrics.latency_impact = 200)
              => fb_decision[1].recommendation = "DEPLOY"
        /\ (fb_metrics.error_rate = [n |-> 0, d |-> 1]
                /\ fb_metrics.latency_impact = 201)
              => fb_decision[1].recommendation = "INVESTIGATE"

\* both INVESTIGATE thresholds met exactly: the call answered DEPLOY
C5_Witness ==
    /\ FbCalled
    /\ fb_metrics.error_rate = [n |-> 1, d |-> 100]
    /\ fb_metrics.latency_impact = 200
    /\ fb_decision[1].recommendation = "DEPLOY"

CanEmitted == can_result # <<>>
CanResult == can_result[1].result
CanTotal == Len(can_msg[1].target_systems)
CanTargetSet == { can_msg[1].target_systems[i] : i \in 1..CanTotal }

\* C6 as stated: every CanaryTestResult carries the recommendation the
\* threshold table assigns to its own error_rate and latency_impact, with or
\* without an oracle.
C6_EveryResultFollowsTable ==
    CanEmitted =>
        CanResult.recommendation
            = CanonicalRecommendation(CanResult.error_rate, CanResult.latency_impact)

\* C6 amended: a CanaryTestResult decided without the oracle (none is
\* configured, or get_ai_decision's own exception handler ran) carries the
\* table's recommendation; with no oracle configured every result is such.
C6_RuleBasedResultFollowsTable ==
    CanEmitted =>
        /\ ~ai_available => ~can_result[1].used_ai
        /\ ~can_result[1].used_ai =>
              /\ CanResult.details = "Rule-based"
              /\ CanResult.recommendation
                    = CanonicalRecommendation(CanResult.error_rate,
                                              CanResult.latency_impact)

\* no oracle, an error rate above 0.05: the result says ROLLBACK
C6_Witness ==
    /\ CanEmitted
    /\ ~ai_available
    /\ 100 * CanResult.error_rate.n > 5 * CanResult.error_rate.d
    /\ CanResult.recommendation = "ROLLBACK"

\* C12: when the oracle is configured but its call fails during a canary
\* decision (non-200 status, connection error, malformed response), the
\* decision is the rule-based fallback: the recommendation is the threshold
\* table's for the measured error_rate and latency_impact, and the decision
\* is marked as not using AI.
C12_CanaryOracleFailureFallsBack ==
    (CanEmitted /\ ai_available /\ can_result[1].oracle = "fail")
        => /\ ~can_result[1].used_ai
           /\ CanResult.recommendation
                 = CanonicalRecommendation(CanResult.error_rate,
                                           CanResult.latency_impact)

\* round(n * 0.01) as Python rounds: to nearest, ties to even
RoundPercent(n) ==
    IF 2 * (n % 100) > 100 \/ (2 * (n % 100) = 100 /\ (n \div 100) % 2 = 1)
    THEN n \div 100 + 1
    ELSE n \div 100

\* C7 as stated: the canary test selects max(1, round(|targets| x 0.01))
\* distinct targets of the list.
C7_SampleSizeRounded ==
    can_pc = "monitoring" =>
        /\ can_sample \subseteq CanTargetSet
        /\ Cardinality(can_sample) = Max(1, RoundPercent(CanTotal))

\* C7 amended: from a non-empty list the canary test selects
\* max(1, floor(|targets| x 0.01)) distinct targets of the list (truncating);
\* for an empty list it asks for one target, the selection raises and
\* nothing is selected or emitted.
C7_SampleSizeTruncated ==
    /\ can_pc = "monitoring" =>
          /\ CanTotal >= 1
          /\ can_sample \subseteq CanTargetSet
          /\ Cardinality(can_sample) = Max(1, CanTotal \div 100)
    /\ can_raised =>
          /\ CanTotal = 0
          /\ can_sample = {}
          /\ ~CanEmitted
    /\ (can_msg # <<>> /\ CanTotal = 0) => can_raised

\* 150 targets: one system is drawn, where rounding would draw two
C7_Witness ==
    /\ can_pc = "monitoring"
    /\ CanTotal = 150
    /\ Cardinality(can_sample) = 1


----------------------------------------------------------------------------
(* Claims about the response agents *)

\* an anomaly alert has been decided on in the handler now running
RespDecided == resp_alert # <<>> /\ resp_decision # <<>> /\ resp_action # <<>>
RespAlert == resp_alert[1]
RespDecision == resp_decision[1]
RespAction == resp_action[1]
RespAsked == RespDecision.analysis # <<>>
RespAnalysis == RespDecision.analysis[1]

\* C8: for an alert of severity CRITICAL the action type chosen is ROLLBACK,
\* whatever the oracle does (absent, failing, low confidence, or a confident
\* answer naming another action) and whatever the alert's metric_type and
\* recommendation are.
C8_CriticalAlwaysRollback ==
    (RespDecided /\ RespAlert.severity = "CRITICAL")
        => RespAction.action_type = "ROLLBACK"

\* the rule table as the specification words it, keyed on severity,
\* metric_type and the ROLLBACK_IMMEDIATELY recommendation
SpecifiedRuleTable(alert) ==
    IF alert.severity = "CRITICAL" \/ alert.recommendation = "ROLLBACK_IMMEDIATELY"
    THEN "ROLLBACK"
    ELSE IF alert.metric_type = "CPU"
    THEN (IF alert.current_value > 90 THEN "RESTART" ELSE "SCALE_UP")
    ELSE IF alert.metric_type = "MEMORY"
    THEN (IF alert.current_value > 95 THEN "RESTART" ELSE "INVESTIGATE")
    ELSE IF alert.severity = "HIGH"
    THEN "ISOLATE"
    ELSE "INVESTIGATE"

\* C9: the rule-based decision maps every alert, in this order, to ROLLBACK
\* if severity is CRITICAL or recommendation is ROLLBACK_IMMEDIATELY; else,
\* for a CPU metric, to RESTART above 90 and SCALE_UP otherwise; else, for a
\* MEMORY metric, to RESTART above 95 and INVESTIGATE otherwise; else to
\* ISOLATE if severity is HIGH; else to INVESTIGATE.
C9_RuleTableAsSpecified ==
    rb_decision # <<>> => rb_decision[1] = SpecifiedRuleTable(rb_alert)

\* C10: the oracle's recommendation becomes the action type only when the
\* reported confidence is strictly above the caller's threshold (0.7 in
\* IntelligentResponseAgent, 0.75 in LavaResponseAgent); at or below the
\* threshold the action type is the caller's rule-table result for the alert.
C10_OracleOnlyAboveThreshold ==
    (RespDecided /\ resp_variant \in {"IntelligentResponseAgent", "LavaResponseAgent"})
        => LET threshold == IF resp_variant = "IntelligentResponseAgent" THEN 70 ELSE 75
           IN  /\ UsedOracle(RespDecision)
                     => /\ RespAsked
                        /\ RespAnalysis.confidence > threshold
                        /\ RespAction.action_type = RespAnalysis.recommendation
               /\ (RespAsked /\ RespAnalysis.confidence <= threshold)
                     => /\ ~UsedOracle(RespDecision)
                        /\ RespAction.action_type
                              = RuleBasedDecision(resp_variant, RespAlert)

\* the intelligent agent got an answer of confidence exactly 0.7 that names
\* an action the rule table does not, and the action has been carried out
C10_Witness ==
    /\ RespDecided
    /\ resp_pc = "done"
    /\ resp_variant = "IntelligentResponseAgent"
    /\ RespAsked
    /\ RespAnalysis.confidence = 70
    /\ RespAnalysis.recommendation = "RESTART"
    /\ RespAction.action_type = "ROLLBACK"
    /\ RespAction.action_type = RuleBasedDecision(resp_variant, RespAlert)

\* the oracle call made for the alert now handled failed: there is no
\* token, or the request ended in one of the failure kinds, or the answer
\* was prose where JSON was asked for
RespOracleFailed ==
    /\ resp_alert # <<>>
    /\ resp_decision # <<>>
    /\ resp_variant \in {"IntelligentResponseAgent", "LavaResponseAgent"}
    /\ \/ ~lava_available
       \/ /\ resp_outcome # <<>>
          /\ resp_outcome[1].kind \in IncidentFailureKinds \cup {"text"}

RespUnknownActionRun ==
    /\ RespDecided
    /\ resp_pc \in {"sending", "done"}
    /\ RespAction.action_type \notin Runbooks(resp_variant)

\* C13: when the chosen action type is no key of the runbook table (an
\* oracle answer such as SCALE), the executor runs the INVESTIGATE runbook
\* and the ResponseAction does not end as a failure, in every response-agent
\* variant.
C13_UnknownActionInvestigates ==
    RespUnknownActionRun
        => /\ resp_runbook = <<"INVESTIGATE">>
           /\ RespAction.status = "COMPLETED"

\* a step on the ResponseAction of the running handler: it is created with
\* status INITIATED, and a change of its status leaves INITIATED for
\* COMPLETED or FAILED
ActionStatusStep ==
    /\ (resp_action = <<>> /\ resp_action' # <<>>)
          => resp_action'[1].status = "INITIATED"
    /\ (resp_action # <<>> /\ resp_action' # <<>>
          /\ resp_action'[1].status # resp_action[1].status)
          => /\ resp_action[1].status = "INITIATED"
             /\ resp_action'[1].status \in {"COMPLETED", "FAILED"}

\* C14: every ResponseAction is created with status INITIATED, changes status
\* exactly once, to COMPLETED or FAILED, never changes again, and is in a
\* terminal status when it is sent to the communication agent.
C14_ActionStatusOnce ==
    /\ [][ActionStatusStep]_vars
    /\ [](resp_sent # <<>>
            => /\ resp_action # <<>>
               /\ resp_action[1].status \in {"COMPLETED", "FAILED"})

\* an action that ended FAILED has been sent and delivered
C14_Witness ==
    /\ resp_pc = "done"
    /\ resp_sent = <<TRUE>>
    /\ resp_action # <<>>
    /\ resp_action[1].status = "FAILED"

----------------------------------------------------------------------------
(* Claims about the communication agent *)

ComHandled == com_last # <<>>
ComLast == com_last[1]

\* C15: for every ResponseAction the notifier handles it produces exactly
\* one StatusUpdate, RESOLVED for an action that is COMPLETED and MITIGATING
\* for any other status, with the action_id as incident_id and the action's
\* target systems as affected services; it appends the record to the status
\* log and increases notifications_sent by exactly one.
C15_OneStatusUpdatePerAction ==
    ComHandled
        => /\ ComLast.status.status
                 = (IF ComLast.msg.status = "COMPLETED"
                    THEN "RESOLVED" ELSE "MITIGATING")
           /\ ComLast.status.incident_id = ComLast.msg.action_id
           /\ ComLast.status.affected_services = ComLast.msg.target_systems
           /\ status_page = Append(ComLast.page_before, ComLast.status)
           /\ ComLast.wrote => status_file = status_page
           /\ com_storage.notifications_sent = ComLast.sent_before + 1

\* a FAILED action was handled after an earlier one: its record is MITIGATING
\* and the second of the log and of the file
C15_Witness ==
    /\ ComHandled
    /\ ComLast.msg.status = "FAILED"
    /\ ComLast.status.status = "MITIGATING"
    /\ ComLast.wrote
    /\ Len(status_file) = 2
    /\ com_storage.notifications_sent = 2

\* s is an initial part of t
IsPrefix(s, t) == Len(s) <= Len(t) /\ SubSeq(t, 1, Len(s)) = s

\* C16: status_page.json is append-only: after any sequence of published
\* StatusUpdates and notifier restarts, every record ever written is still
\* there, in its original order, and new records are only added at the end.
C16_StatusFileAppendOnly ==
    [][IsPrefix(status_file, status_file')]_vars

----------------------------------------------------------------------------
(* Claims about the incident pipeline *)

\* how often handler run k occurs in a sequence of run numbers
Count(seq, k) == Cardinality({ i \in 1..Len(seq) : seq[i] = k })

\* the response agent is through with handler run k
RunFinished(k) ==
    \/ resp_handled > k
    \/ resp_handled = k /\ resp_pc \in {"done", "idle"}

\* a step of the pipeline in the order of the incident states: a runbook
\* starts only for an action already decided, an action arrives at the
\* notifier only from a handler whose runbook step is over and whose action
\* is in a terminal status, and handler runs are never taken up again
PipelineStep ==
    /\ (resp_runbook = <<>> /\ resp_runbook' # <<>>)
          => resp_pc = "executing" /\ resp_action # <<>>
    /\ com_arrived' # com_arrived
          => /\ resp_pc = "sending"
             /\ resp_action[1].status \in {"COMPLETED", "FAILED"}
             /\ com_arrived' = Append(com_arrived, resp_handled)
    /\ resp_handled' >= resp_handled

RunReceived(k) ==
    resp_handled = k /\ (resp_alert # <<>> \/ resp_canary # <<>>)

\* C18: with every agent registered and every send succeeding, every
\* CanaryTestResult and every AnomalyAlert delivered to the response agent
\* eventually leads to a runbook execution and to a StatusUpdate published
\* by the notifier, for every recommendation and every severity.
C18_EveryMessageNotified ==
    \A k \in 1..MaxMessages :
        /\ RunReceived(k) ~> (resp_handled = k /\ resp_runbook # <<>>)
        /\ RunReceived(k) ~> (Count(com_notified, k) = 1)

----------------------------------------------------------------------------
(* Claims about the transport *)

NetCalled == net_call # <<>>
NetCall == net_call[1]

\* the ctx.send invocations and the delivered copies of call k
AttemptsOf(k) == { i \in 1..Len(net_attempts) : net_attempts[i].call = k }
DeliveriesOf(k) == { i \in 1..Len(net_delivered) : net_delivered[i].call = k }

\* C19: send_to_peer to a name that is not in the sender's directory returns
\* failure at once without invoking the delivery: no message is delivered
\* to anyone and the directory is unchanged.
C19_UnregisteredPeerFailsAtOnce ==
    /\ [](NetCalled /\ NetCall.peer_name \notin DOMAIN reg_agents
            => /\ net_pc = "returned"
               /\ net_result = <<FALSE>>
               /\ AttemptsOf(NetCall.id) = {}
               /\ DeliveriesOf(NetCall.id) = {})
    /\ [][reg_agents' = reg_agents]_vars

\* the response agent sends to communication_agent, which its registry does
\* not hold although it holds another peer
C19_Witness ==
    /\ NetCalled
    /\ NetCall.caller = "response_agent"
    /\ NetCall.peer_name \notin DOMAIN reg_agents
    /\ DOMAIN reg_agents # {}
    /\ net_result = <<FALSE>>
    /\ net_attempts = <<>>

\* C20: each send_to_peer call attempts the delivery at most once and never
\* retries, so a message is delivered at most once per call; a delivery
\* error comes back as a false result and is never raised to the caller,
\* and callers abandon the operation without resending.
C20_AtMostOnceNoRetry ==
    \A k \in 1..MaxSends :
        /\ Cardinality(AttemptsOf(k)) <= 1
        /\ Cardinality(DeliveriesOf(k)) <= Cardinality(AttemptsOf(k))
        /\ \A i \in AttemptsOf(k) :
              (net_attempts[i].raises /\ NetCalled /\ NetCall.id = k
                    /\ net_pc = "returned")
                 => net_result = <<FALSE>>

\* the canary agent's send raised: it got False, nothing was delivered and
\* the agent has not sent again
C20_Witness ==
    /\ net_calls = 1
    /\ net_pc = "idle"
    /\ Len(net_attempts) = 1
    /\ net_attempts[1].raises
    /\ net_delivered = <<>>

----------------------------------------------------------------------------
(* Claims about the agent directory *)

\* a register call has returned and its process still runs
DirRegistered == dir_last # <<>> /\ dir_pc[dir_last[1].proc] = "running"

DirCall == dir_last[1]

\* C21: registering a name that is already in the directory replaces that
\* entry's address, port and capabilities and leaves the number of entries
\* and every other entry unchanged; a following lookup of that name returns
\* the new address.
C21_ReRegistrationReplaces ==
    (DirRegistered /\ DirCall.name \in Keys(DirCall.before)) =>
        LET before == DirCall.before
            now == dir_agents[DirCall.proc]
            entry == Get(now, DirCall.name)
        IN  /\ Len(now) = Len(before)
            /\ \A i \in 1..Len(before) :
                  before[i].key # DirCall.name => now[i] = before[i]
            /\ Cardinality({i \in 1..Len(now) : now[i].key = DirCall.name}) = 1
            /\ entry.address = DirCall.address
            /\ entry.port = DirCall.port
            /\ entry.capabilities = DirCall.capabilities
            /\ GetAgentAddress(now, DirCall.name) = <<DirCall.address>>

\* response_agent restarts with a new address next to the entry of
\* monitoring_agent: two entries before, its own among them with another
\* address
C21_Witness ==
    /\ DirRegistered
    /\ DirCall.name \in Keys(DirCall.before)
    /\ Len(DirCall.before) = 2
    /\ Get(DirCall.before, DirCall.name).address # DirCall.address
    /\ Get(DirCall.before, DirCall.name).port # DirCall.port

\* the entries of a directory are those of the JSON object data, in
\* address, port, capabilities and status (a value without status gets the
\* default)
Corresponds(data, agents) ==
    /\ Len(agents) = Len(data)
    /\ \A i \in 1..Len(data) :
          /\ agents[i].key = data[i].key
          /\ agents[i].value.address = data[i].value.address
          /\ agents[i].value.port = data[i].value.port
          /\ agents[i].value.capabilities = data[i].value.capabilities
          /\ agents[i].value.status =
                IF "status" \in DOMAIN data[i].value
                THEN data[i].value.status ELSE "active"

\* saving a directory and loading the file into a fresh one gives the same
\* names with the same address, port, capabilities and status
RoundTrips(agents) ==
    LET file == FileAfterSave(NoFile, agents, "ok")
        loaded == LoadRegistry(file, <<>>)
    IN  /\ Keys(loaded) = Keys(agents)
        /\ Len(loaded) = Len(agents)
        /\ \A k \in Keys(agents) :
              /\ Get(loaded, k).address = Get(agents, k).address
              /\ Get(loaded, k).port = Get(agents, k).port
              /\ Get(loaded, k).capabilities = Get(agents, k).capabilities
              /\ Get(loaded, k).status = Get(agents, k).status

\* the process p has constructed its registry from a JSON file and has not
\* registered yet
JustLoaded(p) ==
    /\ dir_pc[p] = "loaded"
    /\ dir_loaded[p] # <<>>
    /\ dir_loaded[p][1].kind = "json"

\* C22 as stated: the round trip is lossless, and a file whose values have
\* exactly the fields {address, port, capabilities, status} keyed by name
\* loads into the corresponding entries.
C22_FourFieldFileLoads ==
    /\ \A p \in AgentProcs : RoundTrips(dir_agents[p])
    /\ \A p \in AgentProcs :
          (/\ JustLoaded(p)
           /\ \A i \in 1..Len(dir_loaded[p][1].data) :
                 DOMAIN dir_loaded[p][1].data[i].value
                     = {"address", "port", "capabilities", "status"})
             => Corresponds(dir_loaded[p][1].data, dir_agents[p])

\* C22 amended: the round trip is lossless, and a file whose values have the
\* fields name, address, port and capabilities (status and last_seen are
\* optional, and there is no other field) loads into the corresponding
\* entries.
C22_RoundTripWithName ==
    /\ \A p \in AgentProcs : RoundTrips(dir_agents[p])
    /\ \A p \in AgentProcs :
          (/\ JustLoaded(p)
           /\ \A i \in 1..Len(dir_loaded[p][1].data) :
                 LET fields == DOMAIN dir_loaded[p][1].data[i].value
                 IN  RequiredFields \subseteq fields /\ fields \subseteq AgentInfoFields)
             => Corresponds(dir_loaded[p][1].data, dir_agents[p])

\* a process has loaded the file with the inactive monitoring_agent entry
\* that carries last_seen
C22_Witness ==
    \E p \in AgentProcs :
        /\ JustLoaded(p)
        /\ Len(dir_agents[p]) = 2
        /\ "monitoring_agent" \in Keys(dir_agents[p])
        /\ Get(dir_agents[p], "monitoring_agent").status = "inactive"
        /\ Get(dir_agents[p], "monitoring_agent").last_seen = 5

\* C23: when writing the registry file fails during register, the call
\* still returns normally, the new entry is in the in-memory directory and
\* later lookups in the same process return it; the file is read only when
\* the directory is constructed, never during register or lookup.
C23_WriteFailureKeepsEntry ==
    /\ [](DirRegistered /\ DirCall.outcome # "ok"
            => /\ DirCall.name \in Keys(dir_agents[DirCall.proc])
               /\ GetAgentAddress(dir_agents[DirCall.proc], DirCall.name)
                     = <<DirCall.address>>)
    /\ [][\A p \in AgentProcs :
              dir_reads'[p] # dir_reads[p]
                 => dir_pc[p] = "down" /\ dir_pc'[p] = "loaded"]_vars

\* the write broke off after the file was truncated: the file is unreadable
\* and the process has its entry
C23_Witness ==
    /\ DirRegistered
    /\ DirCall.outcome = "partial"
    /\ dir_file = CorruptFile
    /\ DirCall.name \in Keys(dir_agents[DirCall.proc])

----------------------------------------------------------------------------
(* Claims about the counters *)

\* C25: every persisted per-agent counter (tests_run, incidents_prevented,
\* actions_taken, incidents_resolved, notifications_sent; anomalies_detected
\* is not part of this model) is monotonic: over any sequence of handled
\* messages and agent restarts its stored value never decreases.
C25_CountersMonotonic ==
    [][/\ can_storage'.tests_run >= can_storage.tests_run
       /\ can_storage'.incidents_prevented >= can_storage.incidents_prevented
       /\ resp_storage'.actions_taken >= resp_storage.actions_taken
       /\ resp_storage'.incidents_resolved >= resp_storage.incidents_resolved
       /\ com_storage'.notifications_sent >= com_storage.notifications_sent]_vars

\* C26: incidents_resolved is incremented exactly once for each
\* ResponseAction that reaches status COMPLETED and is not incremented for
\* an action that ends FAILED, in every response-agent variant and on both
\* the oracle path and the rule-based path.
C26_ResolvedCountsCompleted ==
    [][IF resp_pc = "executing" /\ resp_pc' = "sending"
       THEN resp_storage'.incidents_resolved =
               resp_storage.incidents_resolved
                  + (IF resp_action'[1].status = "COMPLETED" THEN 1 ELSE 0)
       ELSE resp_storage'.incidents_resolved = resp_storage.incidents_resolved]_vars

----------------------------------------------------------------------------
(* Claims about the message schemas *)

\* C27: every message an agent sends has exactly the same field set as the
\* model of the same name on which the receiving agent registers its
\* handler, so that every ResponseAction sent by any response-agent variant
\* is accepted by the communication agent's handler and every AnomalyAlert
\* sent by the monitoring agent is accepted by the response agent's handler.
C27_SentFieldsMatchHandler ==
    \A i \in 1..Len(wire_log) :
        /\ wire_log[i].sent_fields = wire_log[i].handler_fields
        /\ wire_log[i].accepted

----------------------------------------------------------------------------
(* Claims about the handler runs *)

----------------------------------------------------------------------------
(* Claims about the canary worker's robustness *)

\* C29: handling an UpdatePackage with any target list, including an empty
\* list and a single-element list, never fails inside the canary worker:
\* the number of sampled targets never exceeds the number of targets and a
\* CanaryTestResult is always produced.
C29_AnyTargetListHandled ==
    /\ ~can_raised
    /\ can_pc = "monitoring" => Cardinality(can_sample) <= CanTotal
    /\ (can_pc = "done" /\ can_msg # <<>>) => CanEmitted

----------------------------------------------------------------------------
(* Claims about the mock infrastructure *)

\* the last request was answered 200 for an existing system
InfraAnswered(request) ==
    /\ infra_last # <<>>
    /\ infra_last[1].request = request
    /\ infra_last[1].system_id \in DOMAIN infra_last[1].before

\* the last request left every system but its own as it was
OthersUntouched ==
    \A i \in DOMAIN systems :
        i # infra_last[1].system_id => systems[i] = infra_last[1].before[i]

\* C30: POST /rollback/{id} on any existing system, from any prior state
\* (healthy, failed by simulate-failure, failed by deploy), answers
\* rolled_back and leaves that system healthy with version 1.0.0, and POST
\* /simulate-failure/{id} on any existing system answers failure_simulated
\* and leaves it failed; neither changes any other system.
C30_RollbackAndSimulateFailure ==
    /\ InfraAnswered("rollback") =>
          /\ infra_last[1].code = 200
          /\ infra_last[1].status = "rolled_back"
          /\ systems[infra_last[1].system_id].status = "healthy"
          /\ systems[infra_last[1].system_id].version = "1.0.0"
          /\ DOMAIN systems = DOMAIN infra_last[1].before
          /\ OthersUntouched
    /\ InfraAnswered("simulate-failure") =>
          /\ infra_last[1].code = 200
          /\ infra_last[1].status = "failure_simulated"
          /\ systems[infra_last[1].system_id].status = "failed"
          /\ DOMAIN systems = DOMAIN infra_last[1].before
          /\ OthersUntouched

\* a system that a deploy had left failed, next to one on version 1.5.0, has
\* been rolled back
C30_Witness ==
    /\ InfraAnswered("rollback")
    /\ infra_last[1].before[infra_last[1].system_id].status = "failed"
    /\ infra_last[1].before[infra_last[1].system_id].load = "normal"
    /\ \E i \in DOMAIN systems :
          i # infra_last[1].system_id /\ systems[i].version = "1.5.0"

----------------------------------------------------------------------------
(* Claims about the canary agent's counters *)

\* the step on which a run of handle_update ends, by return or by exception
HandleUpdateEnds == can_pc # "done" /\ can_pc' = "done"

\* C31: for every UpdatePackage the canary handles, tests_run increases by
\* exactly one whether or not the result can be sent, and
\* incidents_prevented increases by exactly one if and only if the emitted
\* recommendation is ROLLBACK.
C31_CountersPerUpdate ==
    [][HandleUpdateEnds =>
          /\ can_storage'.tests_run = can_storage.tests_run + 1
          /\ can_result' # <<>>
          /\ can_storage'.incidents_prevented =
                can_storage.incidents_prevented
                    + (IF can_result'[1].result.recommendation = "ROLLBACK"
                       THEN 1 ELSE 0)]_vars

\* C32: in every CanaryTestResult emitted, success is true if and only if
\* recommendation is DEPLOY, for any recommendation value the oracle or the
\* rule table produces.
C32_SuccessIffDeploy ==
    CanEmitted => (CanResult.success <=> CanResult.recommendation = "DEPLOY")

\* the oracle said DEPLOY for a test whose error rate the rule table would
\* roll back: the result is a success
C32_Witness ==
    /\ CanEmitted
    /\ can_result[1].used_ai
    /\ CanResult.recommendation = "DEPLOY"
    /\ CanResult.success
    /\ CanonicalRecommendation(CanResult.error_rate, CanResult.latency_impact)
          = "ROLLBACK"

\* a result that is no success and no rollback: the oracle named an action
\* outside the three recommendations, or the recommendation is INVESTIGATE
C32_WitnessOther ==
    /\ CanEmitted
    /\ CanResult.recommendation \notin {"DEPLOY", "ROLLBACK", "INVESTIGATE"}
    /\ ~CanResult.success

----------------------------------------------------------------------------
(* Claims about the monitor loop *)

\* the last poll of a system, and the body of the GET it read
WatchPolled(s) == watch_last[s] # <<>>
WatchPoll(s) == watch_last[s][1]

\* the step is a pass through the loop body in which collect_metrics
\* returned None
FailedPollStep ==
    /\ watch_pos >= 1
    /\ watch_pos' # watch_pos
    /\ watch_last'[MonitoredSystems[watch_pos]][1].collected = <<>>

\* C33: when metric collection for a subject fails (detect_anomaly receives
\* no metrics), no alert is produced, no baseline is created or changed for
\* that subject, and the monitor loop goes on to the remaining subjects and
\* to later polling cycles.
\* (the loop goes on: its position after the failed poll is the next
\* system's, or the sleep before the next cycle after the last system)
C33_FailedCollectionSkipsSubject ==
    [][FailedPollStep =>
          /\ watch_last'[MonitoredSystems[watch_pos]][1].result = <<>>
          /\ baseline_metrics' = baseline_metrics
          /\ watch_pos' = AfterSystem(watch_pos)]_vars

\* the collection for the first system, which has a baseline, has failed
\* and the loop is at the second system
C33_Witness ==
    /\ watch_pos = 2
    /\ WatchPolled(MonitoredSystems[1])
    /\ WatchPoll(MonitoredSystems[1]).collected = <<>>
    /\ MonitoredSystems[1] \in DOMAIN baseline_metrics

\* the system is as simulate-failure leaves it
FailedState(s) == systems[s].status = "failed" /\ systems[s].load = "high"

\* the last poll of the system read the failed state and raised an alert
ReportedFailed(s) ==
    /\ WatchPolled(s)
    /\ WatchPoll(s).collected # <<>>
    /\ WatchPoll(s).collected[1].error_count = UnhealthyErrors
    /\ WatchPoll(s).collected[1].cpu_usage = FailedCpu
    /\ WatchPoll(s).result # <<>>

\* C38: a monitored subject that is in the failed state (as set by
\* simulate-failure: status failed, cpu 95, memory 98) at every poll from
\* some point on is eventually reported by an anomaly alert, including when
\* it was already failed at the Detector's first observation of it.
C38_FailedSubjectReported ==
    \A s \in SystemIds : <>[]FailedState(s) => <>ReportedFailed(s)

\* the last request was a rollback of a system that simulate-failure had
\* left with cpu 95 and memory 98
RolledBackAfterFailure ==
    /\ InfraAnswered("rollback")
    /\ infra_last[1].before[infra_last[1].system_id].load = "high"

\* the last poll of the system read status healthy, and the baseline it was
\* compared with is the one taken from the system's start values
HealthyPollOnOldBaseline(s) ==
    /\ WatchPolled(s)
    /\ WatchPoll(s).collected # <<>>
    /\ WatchPoll(s).collected[1].error_count = 0
    /\ WatchPoll(s).before # <<>>
    /\ WatchPoll(s).before[1].cpu = RatOfInt(infra_start[s].cpu)
    /\ WatchPoll(s).before[1].memory = RatOfInt(infra_start[s].memory)

\* C39: in the mock infrastructure, simulate-failure followed by rollback
\* on the same system returns that system's reported cpu and memory to
\* their pre-failure values, so that a Detector whose baseline was taken
\* before the failure stops raising alerts for it after the rollback.
C39_RollbackRestoresReadings ==
    /\ RolledBackAfterFailure =>
          LET system_id == infra_last[1].system_id
              data == GetSystem(systems[system_id], infra_start[system_id])
          IN  /\ data.cpu = infra_start[system_id].cpu
              /\ data.memory = infra_start[system_id].memory
    /\ \A s \in SystemIds :
          HealthyPollOnOldBaseline(s) => WatchPoll(s).result = <<>>

----------------------------------------------------------------------------
(* Claims about name resolution between agent processes *)

\* C34: once an agent B has registered, a send_to_peer to B's name issued
\* by any other running agent process resolves B's address, including when
\* the sender's process started (and loaded the registry file) before B
\* registered.  (Every write of the file went through.)
C34_RegisteredPeerResolves ==
    ~dir_failed =>
        \A sender \in AgentProcs, b \in AgentProcs :
            (sender # b /\ dir_pc[sender] = "running" /\ dir_pc[b] = "running")
                => /\ GetAgentAddress(dir_agents[sender], b) # <<>>
                   /\ GetAgentAddress(dir_agents[sender], b)
                         = GetAgentAddress(dir_agents[b], b)

C36_RuleTablesAgree ==
    rb_decision # <<>> =>
        /\ rb_decision[1] = RuleBasedDecisionBasic(rb_alert)
        /\ rb_decision[1] = RuleBasedDecisionIntelligent(rb_alert)

\* C37: with no oracle configured, the result for an UpdatePackage whose
\* version does not contain "broken" and whose description does not contain
\* "faulty" (in any letter case, as the code tests them) has error_rate 0,
\* never the recommendation ROLLBACK, the recommendation INVESTIGATE exactly
\* when latency_impact > 0.2 and DEPLOY otherwise.
C37_CleanPackageNeverRolledBack ==
    (/\ CanEmitted
     /\ ~ai_available
     /\ ~VersionHasBroken(can_msg[1].version)
     /\ ~DescriptionHasFaulty(can_msg[1].description))
        => /\ CanResult.error_rate.n = 0
           /\ CanResult.recommendation # "ROLLBACK"
           /\ CanResult.recommendation = "INVESTIGATE"
                  <=> CanResult.latency_impact > 200
           /\ CanResult.recommendation = "DEPLOY"
                  <=> CanResult.latency_impact <= 200

\* no oracle, a package that is neither broken nor faulty, a latency impact
\* of exactly 0.2: the result says DEPLOY
C37_Witness ==
    /\ CanEmitted
    /\ ~ai_available
    /\ ~LooksBroken(can_msg[1])
    /\ CanResult.latency_impact = 200
    /\ CanResult.error_rate.n = 0
    /\ CanResult.recommendation = "DEPLOY"

\* the same with a latency impact just above 0.2: the result says INVESTIGATE
C37_WitnessInvestigate ==
    /\ CanEmitted
    /\ ~ai_available
    /\ ~LooksBroken(can_msg[1])
    /\ CanResult.latency_impact = 201
    /\ CanResult.recommendation = "INVESTIGATE"

\* a step of IntelligentResponseAgent or ResponseAgent keeps the counters in
\* line with the messages handled
CountersInLine ==
    resp_variant \in {"IntelligentResponseAgent", "ResponseAgent"} =>
        /\ (resp_pc' = "idle") =>
              (/\ resp_storage'.actions_taken = resp_acted'
               /\ resp_storage'.incidents_resolved = resp_acted')
        /\ (resp_pc = "idle" /\ resp_pc' = "done") =>
              (/\ resp_acted' = resp_acted
               /\ resp_storage' = resp_storage
               /\ resp_sent' = <<>>)

\* C40: in IntelligentResponseAgent and ResponseAgent, whenever no handler
\* runs, actions_taken and incidents_resolved both equal the number of
\* ROLLBACK canary results and HIGH or CRITICAL alerts handled since startup;
\* the handler of any other canary result or alert changes no counter and
\* sends no message.
C40_CountersMatchActingMessages == [][CountersInLine]_vars

============================================================================
